---- MODULE Spec2Model ----
(***************************************************************************)
(* OpenClaw Home Assistant integration: the gateway API client (api.py)    *)
(* and the polling coordinator (coordinator.py).                           *)
(*                                                                         *)
(* Python values are tagged records so that values of different Python     *)
(* types can be compared: None, str, int, datetime, list and dict.         *)
(***************************************************************************)
EXTENDS Integers, Sequences, FiniteSets, TLC

(* ---------------------------------------------------------------------- *)
(* Bounds of the model                                                     *)
(* ---------------------------------------------------------------------- *)
MaxFailures == 5
\* messages appended to the session "main", and to the other session
MaxAppends == 202
MaxOtherAppends == 2
\* levels under which a response nests its text
MaxDepth == 10

(* ---------------------------------------------------------------------- *)
(* Python values                                                           *)
(* ---------------------------------------------------------------------- *)
None == [t |-> "none"]
PyStr(s) == [t |-> "str", v |-> s]
PyInt(n) == [t |-> "int", v |-> n]
PyTime(n) == [t |-> "datetime", v |-> n]
PyBool(b) == [t |-> "bool", v |-> b]
PyList(s) == [t |-> "list", v |-> s]
PyDict(f) == [t |-> "dict", v |-> f]

EmptyDict == [k \in {} |-> None]

\* bool(x) for the values the model uses
Truthy(x) ==
    CASE x.t = "none" -> FALSE
      [] x.t = "str" -> x.v /= ""
      [] x.t = "int" -> x.v /= 0
      [] x.t = "bool" -> x.v
      [] x.t = "list" -> Len(x.v) > 0
      [] x.t = "dict" -> DOMAIN x.v /= {}
      [] OTHER -> TRUE

\* d.get(k) and d.get(k, default) on a mapping d
DictGetDefault(d, k, default) == IF k \in DOMAIN d THEN d[k] ELSE default
DictGet(d, k) == DictGetDefault(d, k, None)

\* d.update(e) on mappings
DictUpdate(d, e) ==
    [k \in DOMAIN d \cup DOMAIN e |-> IF k \in DOMAIN e THEN e[k] ELSE d[k]]

\* a or b
PyOr(a, b) == IF Truthy(a) THEN a ELSE b

RECURSIVE SeqFilterDict(_)
\* [item for item in s if isinstance(item, dict)]
SeqFilterDict(s) ==
    IF s = <<>> THEN <<>>
    ELSE IF Head(s).t = "dict" THEN <<Head(s)>> \o SeqFilterDict(Tail(s))
         ELSE SeqFilterDict(Tail(s))

(* ---------------------------------------------------------------------- *)
(* const.py: keys of the coordinator data                                  *)
(* ---------------------------------------------------------------------- *)
DATA_STATUS == "status"
DATA_MODEL == "model"
DATA_SESSION_COUNT == "session_count"
DATA_SESSIONS == "sessions"
DATA_LAST_ACTIVITY == "last_activity"
DATA_CONNECTED == "connected"
DATA_GATEWAY_VERSION == "gateway_version"
DATA_UPTIME == "uptime"
DATA_PROVIDER == "provider"
DATA_CONTEXT_WINDOW == "context_window"
DATA_LAST_TOOL_NAME == "last_tool_name"
DATA_LAST_TOOL_STATUS == "last_tool_status"
DATA_LAST_TOOL_DURATION_MS == "last_tool_duration_ms"
DATA_LAST_TOOL_INVOKED_AT == "last_tool_invoked_at"
DATA_LAST_TOOL_ERROR == "last_tool_error"
DATA_LAST_TOOL_RESULT_PREVIEW == "last_tool_result_preview"

(* ---------------------------------------------------------------------- *)
(* api.py: the typed errors                                                *)
(* ---------------------------------------------------------------------- *)
OpenClawApiError == "OpenClawApiError"
OpenClawConnectionError == "OpenClawConnectionError"
OpenClawAuthError == "OpenClawAuthError"

\* mutant: the typed errors do not derive from OpenClawApiError
BasesFlat(cls) == {cls, "Exception"}

\* the base classes of an exception class, itself included
Bases(cls) ==
    CASE cls = OpenClawConnectionError -> {OpenClawConnectionError, OpenClawApiError, "Exception"}
      [] cls = OpenClawAuthError -> {OpenClawAuthError, OpenClawApiError, "Exception"}
      [] cls = OpenClawApiError -> {OpenClawApiError, "Exception"}
      [] OTHER -> {cls, "Exception"}

\* does "except handler" catch an exception of class cls
IsInstance(cls, handler) == handler \in Bases(cls)

(* ---------------------------------------------------------------------- *)
(* HTTP responses of the gateway, as the client sees them                  *)
(* ---------------------------------------------------------------------- *)
\* aiohttp exceptions the client handles
ClientConnectorError == "ClientConnectorError"
ClientConnectorCertificateError == "ClientConnectorCertificateError"
ClientOSError == "ClientOSError"
TimeoutError == "TimeoutError"
\* aiohttp exceptions it does not name: a failed DNS lookup (a
\* ClientConnectorError) and a connection the server dropped
ClientConnectorDNSError == "ClientConnectorDNSError"
ServerDisconnectedError == "ServerDisconnectedError"

\* the classes of aiohttp (and asyncio) an exception is an instance of
AiohttpBases(err) ==
    CASE err = ClientConnectorCertificateError
             -> {ClientConnectorCertificateError, ClientConnectorError, ClientOSError}
      [] err = ClientConnectorDNSError
             -> {ClientConnectorDNSError, ClientConnectorError, ClientOSError}
      [] err = ClientConnectorError -> {ClientConnectorError, ClientOSError}
      [] OTHER -> {err}
NetErrors == {ClientConnectorError, ClientConnectorCertificateError, ClientOSError, TimeoutError}

\* content types, character by character
CtJson == <<"a","p","p","l","i","c","a","t","i","o","n","/","j","s","o","n">>
CtProblemJson == <<"a","p","p","l","i","c","a","t","i","o","n","/","p","r","o","b","l","e","m","+","j","s","o","n">>
CtHtml == <<"t","e","x","t","/","h","t","m","l">>
CtEventStream == <<"t","e","x","t","/","e","v","e","n","t","-","s","t","r","e","a","m">>
CtNone == <<>>

\* sub in s, for strings
Contains(s, sub) ==
    \E i \in 1..(Len(s) - Len(sub) + 1) : SubSeq(s, i, i + Len(sub) - 1) = sub

\* mutant: the excerpt is not truncated
PrefixWhole(s, n) == s

\* s[:n]
Prefix(s, n) == SubSeq(s, 1, IF Len(s) < n THEN Len(s) ELSE n)

\* a response body of n characters (character codes)
Text(n) == [i \in 1..n |-> i % 7]

\* a request that fails with aiohttp exception err, and a response: status,
\* content type, body text, the body parsed as JSON, the body as SSE lines
NetFailure(err) ==
    [net |-> err, status |-> 0, content_type |-> CtNone, text |-> <<>>, json |-> None,
     lines |-> <<>>]
HttpResponse(status, ct, text, json) ==
    [net |-> "ok", status |-> status, content_type |-> ct, text |-> text, json |-> json,
     lines |-> <<>>]
SseResponse(status, lines) ==
    [net |-> "ok", status |-> status, content_type |-> CtEventStream, text |-> <<>>,
     json |-> None, lines |-> lines]

\* a line of an SSE body, decoded and stripped: whether it starts with
\* "data: ", and what follows the marker: [DONE], text that json.loads rejects,
\* or the JSON value it parses to
SseLine(marker, payload) == [marker |-> marker, payload |-> payload]
SseDone == [t |-> "[DONE]"]
SseMalformed == [t |-> "malformed"]
DeltaFrame(content) ==
    SseLine(TRUE, PyDict([choices |-> PyList(<<PyDict([delta |-> PyDict([content |-> content])])>>)]))

(* ---------------------------------------------------------------------- *)
(* api.py: outcome of each client operation on a response                  *)
(* ---------------------------------------------------------------------- *)
Return(v) == [kind |-> "return", value |-> v]
Raise(cls, what, status, excerpt) ==
    [kind |-> "raise", cls |-> cls, what |-> what, status |-> status, excerpt |-> excerpt]

\* api.py: the two except clauses of _request
RequestNetError(err) ==
    IF err = ClientConnectorCertificateError
    THEN Raise(OpenClawConnectionError, "SSL certificate verification failed", 0, <<>>)
    ELSE Raise(OpenClawConnectionError, "Cannot connect to OpenClaw gateway", 0, <<>>)

\* api.py: except (ClientConnectorError, ClientOSError, asyncio.TimeoutError);
\* ClientConnectorCertificateError is a ClientConnectorError
NetError(err) == Raise(OpenClawConnectionError, "Cannot connect to OpenClaw gateway", 0, <<>>)

_request(resp) ==
    IF resp.net /= "ok" THEN RequestNetError(resp.net)
    ELSE IF resp.status = 401
         THEN Raise(OpenClawAuthError, "Authentication failed", 0, <<>>)
    ELSE IF resp.status = 403
         THEN Raise(OpenClawAuthError, "Access forbidden", 0, <<>>)
    ELSE IF resp.status >= 400
         THEN Raise(OpenClawApiError, "API error", resp.status, Prefix(resp.text, 200))
    ELSE IF ~Contains(resp.content_type, <<"j","s","o","n">>)
         THEN Raise(OpenClawApiError, "Unexpected response content type", 0, Prefix(resp.text, 200))
    ELSE Return(resp.json)

async_get_models(resp) == _request(resp)

\* mutant: the stream flag is not looked at
async_send_message_ignoring_stream(resp, stream) ==
    IF resp.net /= "ok" THEN NetError(resp.net)
    ELSE IF resp.status = 401
         THEN Raise(OpenClawAuthError, "Authentication failed", 0, <<>>)
    ELSE IF resp.status >= 400
         THEN Raise(OpenClawApiError, "Chat error", resp.status, Prefix(resp.text, 200))
    ELSE Return(resp.json)

async_send_message(resp, stream) ==
    IF stream THEN Raise("ValueError", "Use async_stream_message() for streaming", 0, <<>>)
    ELSE IF resp.net /= "ok" THEN NetError(resp.net)
    ELSE IF resp.status = 401
         THEN Raise(OpenClawAuthError, "Authentication failed", 0, <<>>)
    ELSE IF resp.status >= 400
         THEN Raise(OpenClawApiError, "Chat error", resp.status, Prefix(resp.text, 200))
    ELSE Return(resp.json)

\* lines 326-335: what one data frame adds: "yield", "skip", or the exception
\* that the frame raises
FrameStep(payload) ==
    IF payload = SseMalformed THEN [kind |-> "skip"]
    ELSE IF payload.t /= "dict" THEN [kind |-> "raise", cls |-> "AttributeError"]
    ELSE LET choices == DictGetDefault(payload.v, "choices", PyList(<<>>))
         IN IF ~Truthy(choices) THEN [kind |-> "skip"]
            ELSE IF choices.t /= "list" THEN [kind |-> "raise", cls |-> "KeyError"]
            ELSE IF choices.v[1].t /= "dict" THEN [kind |-> "raise", cls |-> "AttributeError"]
            ELSE LET delta == DictGetDefault(choices.v[1].v, "delta", PyDict(EmptyDict))
                 IN IF delta.t /= "dict" THEN [kind |-> "raise", cls |-> "AttributeError"]
                    ELSE LET content == DictGet(delta.v, "content")
                         IN IF Truthy(content) THEN [kind |-> "yield", value |-> content]
                            ELSE [kind |-> "skip"]

RECURSIVE StreamLines(_, _)
\* lines 317-335: the deltas yielded from the lines of the body, after those
\* in yielded, and the exception that ends the iteration ("" when none does)
StreamLines(lines, yielded) ==
    IF lines = <<>> THEN [kind |-> "stream", yielded |-> yielded, cls |-> ""]
    ELSE LET line == Head(lines)
         IN IF ~line.marker THEN StreamLines(Tail(lines), yielded)
            ELSE IF line.payload = SseDone
                 THEN [kind |-> "stream", yielded |-> yielded, cls |-> ""]
            ELSE LET step == FrameStep(line.payload)
                 IN CASE step.kind = "yield" ->
                             StreamLines(Tail(lines), Append(yielded, step.value))
                      [] step.kind = "skip" -> StreamLines(Tail(lines), yielded)
                      [] OTHER -> [kind |-> "stream", yielded |-> yielded, cls |-> step.cls]

async_stream_message(resp) ==
    IF resp.net /= "ok" THEN NetError(resp.net)
    ELSE IF resp.status = 401
         THEN Raise(OpenClawAuthError, "Authentication failed", 0, <<>>)
    ELSE IF resp.status >= 400
         THEN Raise(OpenClawApiError, "Chat error", resp.status, Prefix(resp.text, 200))
    ELSE StreamLines(resp.lines, <<>>)

\* mutant: the content type is checked before the status
async_check_connection_type_first(resp) ==
    IF resp.net /= "ok" THEN NetError(resp.net)
    ELSE IF ~Contains(resp.content_type, <<"j","s","o","n">>)
         THEN Raise(OpenClawApiError, "Gateway returned non-JSON", 0, Prefix(resp.text, 200))
    ELSE IF resp.status \in {401, 403}
         THEN Raise(OpenClawAuthError, "Authentication failed", 0, <<>>)
    ELSE Return(TRUE)

async_check_connection(resp) ==
    IF resp.net /= "ok" THEN NetError(resp.net)
    ELSE IF resp.status \in {401, 403}
         THEN Raise(OpenClawAuthError, "Authentication failed", 0, <<>>)
    ELSE IF ~Contains(resp.content_type, <<"j","s","o","n">>)
         THEN Raise(OpenClawApiError, "Gateway returned non-JSON", 0, Prefix(resp.text, 200))
    ELSE Return(TRUE)

\* lines 419-423: except (ClientConnectorError, ClientOSError,
\* asyncio.TimeoutError); any other exception leaves the call as it is
AliveExcept == {ClientConnectorError, ClientOSError, TimeoutError}

\* mutant: only a status below 400 counts as alive
async_check_alive_success_only(resp) ==
    IF resp.net /= "ok"
    THEN IF AiohttpBases(resp.net) \cap AliveExcept # {}
         THEN NetError(resp.net) ELSE Raise(resp.net, "", 0, <<>>)
    ELSE Return(resp.status < 400)

async_check_alive(resp) ==
    IF resp.net /= "ok"
    THEN IF AiohttpBases(resp.net) \cap AliveExcept # {}
         THEN NetError(resp.net) ELSE Raise(resp.net, "", 0, <<>>)
    ELSE Return(resp.status < 500)

async_invoke_tool(resp) ==
    IF resp.net /= "ok" THEN NetError(resp.net)
    ELSE IF resp.status = 401
         THEN Raise(OpenClawAuthError, "Authentication failed", 0, <<>>)
    ELSE IF resp.status >= 400
         THEN Raise(OpenClawApiError, "Tool invoke error", resp.status, Prefix(resp.text, 300))
    ELSE IF ~Contains(resp.content_type, <<"j","s","o","n">>)
         THEN Raise(OpenClawApiError, "Unexpected tool response content type", 0, Prefix(resp.text, 300))
    ELSE Return(resp.json)

(* ---------------------------------------------------------------------- *)
(* State                                                                   *)
(* ---------------------------------------------------------------------- *)
VARIABLES
    \* OpenClawCoordinator
    model_cache,            \* self._model_cache
    available_models,       \* self._available_models
    consecutive_failures,   \* self._consecutive_failures
    last_tool_state,        \* self._last_tool_state
    last_activity,          \* self._last_activity
    data,                   \* self.data: the published snapshot (None before the first)
    \* hass.data[DOMAIN]: the configured entries, in insertion order
    entries,
    first_refresh_done,     \* async_config_entry_first_refresh has returned
    \* the poll tick in flight
    pc,                     \* where _async_update_data is suspended
    tick_data,              \* its local variable data
    refresh_idx,            \* the entry whose refresh callback is awaited
    \* bookkeeping of the current (or last) tick, read by the properties only
    tick,
    fail_run,               \* ticks since the last one whose probe did not raise
    fails_since_alive,      \* ticks whose probe raised since the last one that
                            \* reported the gateway alive
    cache_before_run,       \* model cache when the first of them started
    last_pub,               \* who published data: "none", "tick", "tool"
    \* the last call of a client operation outside the tick, with its outcome
    call,
    \* OpenClawApiClient
    _token,                 \* self._token
    _session,               \* self._session
    opened,                 \* how many aiohttp sessions the client has created
    updated_to,             \* the argument of the last update_token, if any
    \* hass.data["openclaw_chat_history"]: the log of each session
    chat_history,
    appended,               \* how many messages were appended to each session
    \* the last call of _extract_assistant_message: its argument and result
    extracted,
    \* the conversation turn or send_message service call in flight, or the last
    req,
    \* the config flow: its last result and the entry it created
    flow,
    \* the last call of apply_context_policy: its arguments and result
    applied

vars == <<model_cache, available_models, consecutive_failures, last_tool_state,
          last_activity, data, entries, first_refresh_done, pc, tick_data,
          refresh_idx, tick, fail_run, fails_since_alive, cache_before_run, last_pub,
          call, _token, _session, opened, updated_to,
          chat_history, appended, extracted, req, flow, applied>>

coordVars == <<model_cache, available_models, consecutive_failures, last_tool_state,
               last_activity, data>>
tickVars == <<pc, tick_data, refresh_idx, tick, fail_run, fails_since_alive,
              cache_before_run>>
hassVars == <<entries, first_refresh_done>>
connVars == <<_token, _session, opened, updated_to>>
clientVars == <<call, connVars>>
storeVars == <<chat_history, appended>>
extractVars == <<extracted>>
callerVars == <<req>>
flowVars == <<flow, applied>>
otherVars == <<storeVars, extractVars, callerVars, flowVars>>

(* ---------------------------------------------------------------------- *)
(* Inputs                                                                  *)
(* ---------------------------------------------------------------------- *)
\* model objects of a /v1/models response
ModelX == [id |-> PyStr("gpt-x"), owned_by |-> PyStr("acme"), context_window |-> PyInt(8192)]
ModelY == [id |-> PyStr("gpt-y")]
ModelAnon == [owned_by |-> PyStr("beta"), context_window |-> None]
ModelLists == {<<>>, <<ModelX>>, <<ModelY, ModelX>>, <<ModelAnon, ModelY>>}

\* JSON bodies of /v1/models: {"data": [...]}, {"data": null} and {}
ModelsPayloads ==
    {[data |-> PyList(l)] : l \in ModelLists}
        \cup {[data |-> None], [object |-> PyStr("list")]}

\* responses of GET /v1/models
ModelsResponses ==
    {NetFailure(e) : e \in {ClientConnectorCertificateError, ClientOSError}}
        \cup {HttpResponse(st, CtJson, Text(3), None) : st \in {401, 403, 404}}
        \cup {HttpResponse(200, CtHtml, Text(3), None)}
        \cup {HttpResponse(200, CtJson, <<>>, p) : p \in ModelsPayloads}

\* responses of GET <base url>
AliveResponses ==
    {NetFailure(ClientConnectorError)}
        \cup {HttpResponse(st, CtHtml, Text(3), None) : st \in {200, 500}}

\* the same, of every kind
ProbeStatuses == {200, 401, 403, 404, 499, 500, 503}
ProbeResponses ==
    {NetFailure(e) : e \in NetErrors \cup {ClientConnectorDNSError, ServerDisconnectedError}}
        \cup {HttpResponse(st, CtHtml, Text(3), None) : st \in ProbeStatuses}

SessionA == PyDict([key |-> PyStr("agent:main:a")])
SessionB == PyDict([key |-> PyStr("agent:main:b")])

\* JSON bodies of POST /tools/invoke for sessions_list
ToolPayloads ==
    { PyDict([ok |-> PyBool(TRUE), result |-> PyList(<<SessionA, PyStr("junk"), SessionB>>)]),
      PyDict([ok |-> PyBool(TRUE), result |-> PyDict([sessions |-> PyList(<<SessionA, SessionB>>)])]),
      PyDict([ok |-> PyBool(TRUE), result |-> PyDict([sessions |-> PyList(<<>>), items |-> PyList(<<SessionA, SessionB>>)])]),
      PyDict([ok |-> PyBool(TRUE), result |-> PyDict([data |-> PyList(<<PyInt(7), SessionA, SessionB>>)])]),
      PyDict([ok |-> PyBool(TRUE), result |-> PyDict([sessions |-> PyStr("none")])]),
      PyDict([ok |-> PyBool(TRUE), result |-> PyStr("no sessions")]),
      PyDict([ok |-> PyBool(FALSE), error |-> PyStr("denied")]),
      PyList(<<SessionA>>) }

\* responses of POST /tools/invoke
ToolResponses ==
    {NetFailure(e) : e \in {ClientConnectorError, TimeoutError}}
        \cup {HttpResponse(st, CtJson, Text(3), None) : st \in {401, 403, 500}}
        \cup {HttpResponse(200, CtHtml, Text(3), None)}
        \cup {HttpResponse(200, CtJson, <<>>, p) : p \in ToolPayloads}

\* arguments of record_tool_invocation
ToolInvocations ==
    { [tool_name |-> "x", ok |-> FALSE, duration_ms |-> 12,
       error_message |-> PyStr("boom"), result_preview |-> None],
      [tool_name |-> "y", ok |-> TRUE, duration_ms |-> 40,
       error_message |-> None, result_preview |-> PyStr("done")] }

\* the instants datetime.now returns
Times == {1}

\* what the refresh callback finds in <addon config>/.openclaw/openclaw.json
ConfigFiles == {"missing", "malformed", "no_token", "empty_token", "t0", "t1"}

(* ---------------------------------------------------------------------- *)
(* coordinator.py: OpenClawCoordinator                                     *)
(* ---------------------------------------------------------------------- *)
\* __init__: the initial self._last_tool_state
InitialToolState ==
    (DATA_LAST_TOOL_NAME :> None) @@ (DATA_LAST_TOOL_STATUS :> None)
        @@ (DATA_LAST_TOOL_DURATION_MS :> None) @@ (DATA_LAST_TOOL_INVOKED_AT :> None)
        @@ (DATA_LAST_TOOL_ERROR :> None) @@ (DATA_LAST_TOOL_RESULT_PREVIEW :> None)

\* the keys of a snapshot
SnapshotKeys ==
    {DATA_STATUS, DATA_CONNECTED, DATA_SESSION_COUNT, DATA_SESSIONS, DATA_MODEL,
     DATA_LAST_ACTIVITY, DATA_GATEWAY_VERSION, DATA_UPTIME, DATA_PROVIDER,
     DATA_CONTEXT_WINDOW, DATA_LAST_TOOL_NAME, DATA_LAST_TOOL_STATUS,
     DATA_LAST_TOOL_DURATION_MS, DATA_LAST_TOOL_INVOKED_AT, DATA_LAST_TOOL_ERROR,
     DATA_LAST_TOOL_RESULT_PREVIEW}

\* mutant: the offline snapshot does not carry the model cache forward
_offline_data_without_cache(cache, activity, tool) ==
    [k \in SnapshotKeys |->
        CASE k = DATA_STATUS -> "offline"
          [] k = DATA_CONNECTED -> FALSE
          [] k = DATA_SESSION_COUNT -> 0
          [] k = DATA_SESSIONS -> <<>>
          [] k = DATA_LAST_ACTIVITY -> activity
          [] k \in DOMAIN tool -> tool[k]
          [] OTHER -> None]

_offline_data(cache, activity, tool) ==
    (DATA_STATUS :> "offline") @@ (DATA_CONNECTED :> FALSE)
        @@ (DATA_SESSION_COUNT :> 0) @@ (DATA_SESSIONS :> <<>>)
        @@ (DATA_MODEL :> DictGet(cache, DATA_MODEL))
        @@ (DATA_LAST_ACTIVITY :> activity)
        @@ (DATA_GATEWAY_VERSION :> None) @@ (DATA_UPTIME :> None)
        @@ (DATA_PROVIDER :> DictGet(cache, DATA_PROVIDER))
        @@ (DATA_CONTEXT_WINDOW :> DictGet(cache, DATA_CONTEXT_WINDOW))
        @@ (DATA_LAST_TOOL_NAME :> DictGet(tool, DATA_LAST_TOOL_NAME))
        @@ (DATA_LAST_TOOL_STATUS :> DictGet(tool, DATA_LAST_TOOL_STATUS))
        @@ (DATA_LAST_TOOL_DURATION_MS :> DictGet(tool, DATA_LAST_TOOL_DURATION_MS))
        @@ (DATA_LAST_TOOL_INVOKED_AT :> DictGet(tool, DATA_LAST_TOOL_INVOKED_AT))
        @@ (DATA_LAST_TOOL_ERROR :> DictGet(tool, DATA_LAST_TOOL_ERROR))
        @@ (DATA_LAST_TOOL_RESULT_PREVIEW :> DictGet(tool, DATA_LAST_TOOL_RESULT_PREVIEW))

\* mutant: the status is set, the connected flag is forgotten
MarkOnlineStatusOnly(d, activity) ==
    DictUpdate(d,
        (DATA_STATUS :> "online")
            @@ (DATA_GATEWAY_VERSION :> None) @@ (DATA_UPTIME :> None)
            @@ (DATA_SESSION_COUNT :> 0) @@ (DATA_SESSIONS :> <<>>)
            @@ (DATA_LAST_ACTIVITY :> activity))

\* _async_update_data, lines 120-126: the probe reported the gateway alive
MarkOnline(d, activity) ==
    DictUpdate(d,
        (DATA_STATUS :> "online") @@ (DATA_CONNECTED :> TRUE)
            @@ (DATA_GATEWAY_VERSION :> None) @@ (DATA_UPTIME :> None)
            @@ (DATA_SESSION_COUNT :> 0) @@ (DATA_SESSIONS :> <<>>)
            @@ (DATA_LAST_ACTIVITY :> activity))

\* mutant: the warning comes one failure early
FailureLogLevelEarly(n) ==
    IF n < 3 THEN "debug" ELSE IF n = 3 THEN "warning" ELSE "none"

\* _async_update_data, lines 131-137: the level logged at the n-th failure
FailureLogLevel(n) ==
    IF n <= 3 THEN "debug" ELSE IF n = 4 THEN "warning" ELSE "none"

RECURSIVE ModelIds(_)
\* [m.get("id") for m in models if m.get("id")]
ModelIds(models) ==
    IF models = <<>> THEN <<>>
    ELSE LET id == DictGet(Head(models), "id")
         IN (IF Truthy(id) THEN <<id>> ELSE <<>>) \o ModelIds(Tail(models))

\* mutant: the first model is merged into the cache, a missing owner or
\* context window keeps the cached one
UpdateModelCacheMerging(models_resp, cache, avail) ==
    LET models == DictGetDefault(models_resp, "data", PyList(<<>>))
    IN IF Truthy(models)
       THEN LET current == models.v[1]
            IN [cache |-> (DATA_MODEL :> DictGetDefault(current, "id", PyStr("unknown")))
                              @@ (DATA_PROVIDER :>
                                     DictGetDefault(current, "owned_by", DictGet(cache, DATA_PROVIDER)))
                              @@ (DATA_CONTEXT_WINDOW :>
                                     DictGetDefault(current, "context_window",
                                                    DictGet(cache, DATA_CONTEXT_WINDOW))),
                avail |-> ModelIds(models.v)]
       ELSE [cache |-> cache, avail |-> avail]

\* _async_update_data, lines 143-153: the model cache after a successful
\* async_get_models
UpdateModelCache(models_resp, cache, avail) ==
    LET models == DictGetDefault(models_resp, "data", PyList(<<>>))
    IN IF Truthy(models)
       THEN LET current == models.v[1]
            IN [cache |-> (DATA_MODEL :> DictGetDefault(current, "id", PyStr("unknown")))
                              @@ (DATA_PROVIDER :> DictGet(current, "owned_by"))
                              @@ (DATA_CONTEXT_WINDOW :> DictGet(current, "context_window")),
                avail |-> ModelIds(models.v)]
       ELSE [cache |-> cache, avail |-> avail]

\* mutant: a failed model refresh clears the cache
ModelsStepClearing(out, cache, avail) ==
    IF out.kind = "return"
    THEN UpdateModelCache(out.value, cache, avail)
    ELSE [cache |-> EmptyDict, avail |-> <<>>]

\* _async_update_data, lines 141-159: model cache and available models after
\* the try block, whose except clauses leave both alone
ModelsStep(out, cache, avail) ==
    IF out.kind = "return"
    THEN UpdateModelCache(out.value, cache, avail)
    ELSE [cache |-> cache, avail |-> avail]

\* _async_update_data, lines 168-175: the sessions of a sessions_list result
ParseSessions(tool_resp) ==
    LET result == IF tool_resp.t = "dict" THEN DictGet(tool_resp.v, "result") ELSE None
    IN IF result.t = "list" THEN SeqFilterDict(result.v)
       ELSE IF result.t = "dict"
            THEN LET candidates ==
                         PyOr(PyOr(DictGet(result.v, "sessions"), DictGet(result.v, "items")),
                              DictGet(result.v, "data"))
                 IN IF candidates.t = "list" THEN SeqFilterDict(candidates.v) ELSE <<>>
            ELSE <<>>

\* mutant: the count is not stored with the list
WithSessionsListOnly(d, sessions) ==
    IF sessions /= <<>> THEN DictUpdate(d, (DATA_SESSIONS :> sessions)) ELSE d

\* _async_update_data, lines 177-179
WithSessions(d, sessions) ==
    IF sessions /= <<>>
    THEN DictUpdate(d, (DATA_SESSIONS :> sessions) @@ (DATA_SESSION_COUNT :> Len(sessions)))
    ELSE d

\* mutant: the tick returns the model fields it read before the probe
MergeCachesToolOnly(d, cache, tool) == DictUpdate(d, tool)

\* _async_update_data, lines 184-186: the snapshot the tick returns
MergeCaches(d, cache, tool) == DictUpdate(DictUpdate(d, cache), tool)

\* the except clauses of the three try blocks of _async_update_data, in order
AliveHandlers == <<OpenClawConnectionError>>
ModelsHandlers == <<OpenClawAuthError, OpenClawApiError>>
SessionsHandlers == <<OpenClawApiError>>

\* mutant: the first except clause catches everything
HandlerFirst(cls, handlers) == handlers[1]

\* the first handler that catches cls, "" when the exception escapes
Handler(cls, handlers) ==
    IF \E i \in 1..Len(handlers) : IsInstance(cls, handlers[i])
    THEN handlers[CHOOSE i \in 1..Len(handlers) :
                     /\ IsInstance(cls, handlers[i])
                     /\ \A j \in 1..(i - 1) : ~IsInstance(cls, handlers[j])]
    ELSE ""

(* ---------------------------------------------------------------------- *)
(* __init__.py: the credential refresh callback of an entry                *)
(* ---------------------------------------------------------------------- *)
\* _try_refresh_token._read: the token found in the config file, or None
_read(file) ==
    CASE file \in {"missing", "malformed", "no_token"} -> None
      [] file = "empty_token" -> PyStr("")
      [] OTHER -> PyStr(file)

\* mutant: the new token is stored in the entry, the client keeps the old one
RefreshCallbackWithoutSwap(entry, file) ==
    LET new_token == _read(file)
    IN IF Truthy(new_token) /\ new_token.v /= entry.token
       THEN [changed |-> TRUE, entry |-> [entry EXCEPT !.token = new_token.v]]
       ELSE [changed |-> FALSE, entry |-> entry]

\* _try_refresh_token of __init__.py: result and the entry afterwards
RefreshCallback(entry, file) ==
    LET new_token == _read(file)
    IN IF Truthy(new_token) /\ new_token.v /= entry.token
       THEN [changed |-> TRUE,
             entry |-> [entry EXCEPT !.token = new_token.v, !.client_token = new_token.v]]
       ELSE [changed |-> FALSE, entry |-> entry]

\* mutant: every entry is taken to have a callback
NextCallbackAny(es, i) == IF i <= Len(es) THEN i ELSE 0

\* coordinator._try_refresh_token: the next entry from i on that has a
\* "refresh_token" callback, 0 when there is none
NextCallback(es, i) ==
    IF \E j \in i..Len(es) : es[j].refresh_token
    THEN CHOOSE j \in i..Len(es) : es[j].refresh_token /\ \A k \in i..(j - 1) : ~es[k].refresh_token
    ELSE 0

(* ---------------------------------------------------------------------- *)
(* Initial state: after OpenClawCoordinator.__init__, before the first     *)
(* refresh of async_setup_entry                                            *)
(* ---------------------------------------------------------------------- *)
\* hass.data[DOMAIN] at setup: the coordinator's own entry, then possibly
\* another one; has_path: the entry has an addon_config_path
Entry(has_path, registered) ==
    [has_path |-> has_path, refresh_token |-> registered, token |-> "t0", client_token |-> "t0"]
EntryConfigs == {<<Entry(FALSE, FALSE)>>, <<Entry(TRUE, FALSE), Entry(TRUE, TRUE)>>}

\* the entries that have registered a refresh callback
Registered(es) == {i \in 1..Len(es) : es[i].refresh_token}

\* the sessions that chat
Sessions == {"main", "other"}

\* nothing has been extracted
NoExtract == [called |-> FALSE]

\* no config flow has been started
NoFlow == [result |-> "none", step_id |-> "", errors |-> <<>>, probed |-> None,
           created |-> None, entry |-> None]

\* apply_context_policy has not been called
NotApplied == [called |-> FALSE]

\* no client operation has been called
NoCall == [op |-> "none"]

\* no conversation turn and no service call yet. A request: who handles it,
\* where it is suspended, how many were started, the entry it uses, how often
\* it asked the gateway for the answer to the message, the follow-up
\* requests, whether the entry had a refresh callback when it started, the
\* client operations it called, the refresh callbacks it
\* awaited and whether the last changed the token, the class of the first and
\* of the last error of the gateway, how it ended, what it told the user and
\* the message-received events it fired; what the last async_stream_message
\* did and the response to the last completion request; for the service, the
\* options of the entry, the response whose tool calls were executed and the
\* Home Assistant services called for them; for invoke_tool, the tool and the
\* invocations handed to record_tool_invocation
NoRequest ==
    [who |-> "none", pc |-> "idle", n |-> 0, entry |-> 0, tries |-> 0, followups |-> 0,
     hook |-> FALSE, ops |-> <<>>, refreshes |-> 0, refreshed |-> FALSE, first |-> "",
     last |-> "", result |-> "none", message |-> None, events |-> 0,
     stream |-> None, sent |-> None, options |-> <<>>, tool_resp |-> None, services |-> <<>>,
     tool_name |-> "", recorded |-> <<>>]

\* an aiohttp.ClientSession: its identity and its closed flag; 0 is the session
\* of Home Assistant handed to the constructor, n > 0 the n-th session the
\* client created itself
Session(id, closed) == [t |-> "session", id |-> id, closed |-> closed]

\* update_token has not been called on this client
NotUpdated == [called |-> FALSE]

\* the bearer tokens
Tokens == {"t0", "t1", "t2"}

\* api.py _headers: the headers of an authenticated request
_headers(token) ==
    [Authorization |-> <<"Bearer", token>>, Content_Type |-> "application/json",
     agent_id |-> "main"]

\* mutant: a closed session is kept
_get_session_keep_closed(session, n) ==
    IF session = None THEN Session(n + 1, FALSE) ELSE session

\* api.py _get_session: the open session, or the (n + 1)-th created one
_get_session(session, n) ==
    IF session = None \/ session.closed THEN Session(n + 1, FALSE) ELSE session

\* the sessions created once _get_session has returned
Opened(session, n) == IF _get_session(session, n) = session THEN n ELSE n + 1

\* bookkeeping of a tick: the outcome of each call ("none": not made, "true",
\* "false", "ok" or the class raised), the calls of coordinator._try_refresh_token,
\* the callbacks registered when it was called, the callbacks it awaited, the
\* result of the tick, the cache when it started, the /v1/models body, the
\* client operations called, in order, the level at which the failed probe was
\* logged ("none": nothing logged), the last refresh callback awaited (the
\* entry, the config file it found, its result and the entry before the call)
\* and the response to the probe
NewTick ==
    [alive |-> "none", models |-> "none", sessions |-> "none",
     try_refresh |-> 0, callbacks |-> 0, hook_calls |-> 0, result |-> "none",
     cache_before |-> EmptyDict, avail_before |-> <<>>, models_resp |-> None,
     calls |-> <<>>, unreachable_log |-> "none", hook |-> [idx |-> 0],
     probe |-> None]

Init ==
    /\ model_cache = EmptyDict
    /\ available_models = <<>>
    /\ consecutive_failures = 0
    /\ last_tool_state = InitialToolState
    /\ last_activity = None
    /\ data = None
    /\ entries \in EntryConfigs
    /\ first_refresh_done = FALSE
    /\ pc = "idle"
    /\ tick_data = None
    /\ refresh_idx = 0
    /\ tick = NewTick
    /\ fail_run = 0
    /\ fails_since_alive = 0
    /\ cache_before_run = EmptyDict
    /\ last_pub = "none"
    /\ call = NoCall
    /\ _token = "t0"
    /\ _session = Session(0, FALSE)
    /\ opened = 0
    /\ updated_to = NotUpdated
    /\ chat_history = EmptyDict
    /\ appended = [s \in Sessions |-> 0]
    /\ extracted = NoExtract
    /\ req = NoRequest
    /\ flow = NoFlow
    /\ applied = NotApplied

(* ---------------------------------------------------------------------- *)
(* The poll tick: _async_update_data, one action per suspension point      *)
(* ---------------------------------------------------------------------- *)
\* the tick returns snapshot d: DataUpdateCoordinator publishes it as self.data;
\* the local variable data is gone
TickReturns(d) ==
    /\ data' = d
    /\ last_pub' = "tick"
    /\ first_refresh_done' = TRUE
    /\ pc' = "idle"
    /\ tick_data' = None
    /\ refresh_idx' = 0

\* an exception leaves the tick: self.data keeps its value
TickRaises ==
    /\ pc' = "idle"
    /\ tick_data' = None
    /\ refresh_idx' = 0
    /\ UNCHANGED <<data, last_pub, first_refresh_done>>

\* line 112, up to the await of async_check_alive
TickStart ==
    /\ pc = "idle"
    /\ tick_data' = _offline_data(model_cache, last_activity, last_tool_state)
    /\ pc' = "check_alive"
    /\ tick' = [NewTick EXCEPT !.result = "running", !.cache_before = model_cache,
                               !.avail_before = available_models,
                               !.calls = <<"async_check_alive">>]
    /\ UNCHANGED <<coordVars, hassVars, refresh_idx, fail_run, fails_since_alive,
                   cache_before_run, last_pub, clientVars, otherVars>>

\* mutant: the except clause of the probe does not return
CheckAliveDoneFallingThrough(resp) ==
    /\ pc = "check_alive"
    /\ LET out == async_check_alive(resp)
           caught == IF out.kind = "raise" THEN Handler(out.cls, AliveHandlers) ELSE ""
       IN \/ /\ out.kind = "return"
             /\ out.value
             /\ tick_data' = MarkOnline(tick_data, last_activity)
             /\ consecutive_failures' = 0
             /\ pc' = "get_models"
             /\ tick' = [tick EXCEPT !.alive = "true", !.probe = resp,
                                      !.calls = Append(@, "async_get_models")]
             /\ fail_run' = 0
             /\ fails_since_alive' = 0
             /\ UNCHANGED <<data, last_pub, first_refresh_done, refresh_idx,
                            cache_before_run>>
          \/ /\ out.kind = "return"
             /\ ~out.value
             /\ TickReturns(tick_data)
             /\ tick' = [tick EXCEPT !.alive = "false", !.probe = resp,
                                      !.result = "returned"]
             /\ fail_run' = 0
             /\ UNCHANGED <<consecutive_failures, fails_since_alive, cache_before_run>>
          \/ /\ out.kind = "raise"
             /\ caught = OpenClawConnectionError
             /\ consecutive_failures < MaxFailures
             /\ consecutive_failures' = consecutive_failures + 1
             /\ pc' = "get_models"
             /\ tick' = [tick EXCEPT !.alive = out.cls, !.probe = resp,
                                      !.calls = Append(@, "async_get_models"),
                                      !.unreachable_log =
                                          FailureLogLevel(consecutive_failures + 1)]
             /\ UNCHANGED <<data, last_pub, first_refresh_done, tick_data, refresh_idx>>
             /\ fail_run' = fail_run + 1
             /\ fails_since_alive' = fails_since_alive + 1
             /\ cache_before_run' = IF fail_run = 0 THEN model_cache ELSE cache_before_run
          \/ /\ out.kind = "raise"
             /\ caught = ""
             /\ TickRaises
             /\ tick' = [tick EXCEPT !.alive = out.cls, !.probe = resp,
                                      !.result = "raised"]
             /\ fail_run' = 0
             /\ UNCHANGED <<consecutive_failures, fails_since_alive, cache_before_run>>
    /\ UNCHANGED <<model_cache, available_models, last_tool_state, last_activity,
                   entries, clientVars, otherVars>>

\* mutant: a probe that reports the gateway not alive resets the counter
CheckAliveDoneResetting(resp) ==
    /\ pc = "check_alive"
    /\ LET out == async_check_alive(resp)
           caught == IF out.kind = "raise" THEN Handler(out.cls, AliveHandlers) ELSE ""
       IN \/ /\ out.kind = "return"
             /\ out.value
             /\ tick_data' = MarkOnline(tick_data, last_activity)
             /\ consecutive_failures' = 0
             /\ pc' = "get_models"
             /\ tick' = [tick EXCEPT !.alive = "true", !.probe = resp,
                                      !.calls = Append(@, "async_get_models")]
             /\ fail_run' = 0
             /\ fails_since_alive' = 0
             /\ UNCHANGED <<data, last_pub, first_refresh_done, refresh_idx,
                            cache_before_run>>
          \/ /\ out.kind = "return"
             /\ ~out.value
             /\ TickReturns(tick_data)
             /\ tick' = [tick EXCEPT !.alive = "false", !.probe = resp,
                                      !.result = "returned"]
             /\ fail_run' = 0
             /\ consecutive_failures' = 0
             /\ UNCHANGED <<fails_since_alive, cache_before_run>>
          \/ /\ out.kind = "raise"
             /\ caught = OpenClawConnectionError
             /\ consecutive_failures < MaxFailures
             /\ consecutive_failures' = consecutive_failures + 1
             /\ TickReturns(tick_data)
             /\ tick' = [tick EXCEPT !.alive = out.cls, !.probe = resp,
                                      !.result = "returned",
                                      !.unreachable_log =
                                          FailureLogLevel(consecutive_failures + 1)]
             /\ fail_run' = fail_run + 1
             /\ fails_since_alive' = fails_since_alive + 1
             /\ cache_before_run' = IF fail_run = 0 THEN model_cache ELSE cache_before_run
          \/ /\ out.kind = "raise"
             /\ caught = ""
             /\ TickRaises
             /\ tick' = [tick EXCEPT !.alive = out.cls, !.probe = resp,
                                      !.result = "raised"]
             /\ fail_run' = 0
             /\ UNCHANGED <<consecutive_failures, fails_since_alive, cache_before_run>>
    /\ UNCHANGED <<model_cache, available_models, last_tool_state, last_activity,
                   entries, clientVars, otherVars>>

\* lines 115-138: async_check_alive completes on response resp
CheckAliveDone(resp) ==
    /\ pc = "check_alive"
    /\ LET out == async_check_alive(resp)
           caught == IF out.kind = "raise" THEN Handler(out.cls, AliveHandlers) ELSE ""
       IN \/ /\ out.kind = "return"
             /\ out.value
             /\ tick_data' = MarkOnline(tick_data, last_activity)
             /\ consecutive_failures' = 0
             /\ pc' = "get_models"
             /\ tick' = [tick EXCEPT !.alive = "true", !.probe = resp,
                                      !.calls = Append(@, "async_get_models")]
             /\ fail_run' = 0
             /\ fails_since_alive' = 0
             /\ UNCHANGED <<data, last_pub, first_refresh_done, refresh_idx,
                            cache_before_run>>
          \/ /\ out.kind = "return"
             /\ ~out.value
             /\ TickReturns(tick_data)
             /\ tick' = [tick EXCEPT !.alive = "false", !.probe = resp,
                                      !.result = "returned"]
             /\ fail_run' = 0
             /\ UNCHANGED <<consecutive_failures, fails_since_alive, cache_before_run>>
          \/ /\ out.kind = "raise"
             /\ caught = OpenClawConnectionError
             /\ consecutive_failures < MaxFailures
             /\ consecutive_failures' = consecutive_failures + 1
             /\ TickReturns(tick_data)
             /\ tick' = [tick EXCEPT !.alive = out.cls, !.probe = resp,
                                      !.result = "returned",
                                      !.unreachable_log =
                                          FailureLogLevel(consecutive_failures + 1)]
             /\ fail_run' = fail_run + 1
             /\ fails_since_alive' = fails_since_alive + 1
             /\ cache_before_run' = IF fail_run = 0 THEN model_cache ELSE cache_before_run
          \/ /\ out.kind = "raise"
             /\ caught = ""
             /\ TickRaises
             /\ tick' = [tick EXCEPT !.alive = out.cls, !.probe = resp,
                                      !.result = "raised"]
             /\ fail_run' = 0
             /\ UNCHANGED <<consecutive_failures, fails_since_alive, cache_before_run>>
    /\ UNCHANGED <<model_cache, available_models, last_tool_state, last_activity,
                   entries, clientVars, otherVars>>

\* lines 141-159: async_get_models completes on response resp
GetModelsDone(resp) ==
    /\ pc = "get_models"
    /\ LET out == async_get_models(resp)
           caught == IF out.kind = "raise" THEN Handler(out.cls, ModelsHandlers) ELSE ""
           first == NextCallback(entries, 1)
           upd == ModelsStep(out, model_cache, available_models)
       IN \/ /\ out.kind = "return"
             /\ model_cache' = upd.cache
             /\ available_models' = upd.avail
             /\ pc' = "invoke_tool"
             /\ tick' = [tick EXCEPT !.models = "ok", !.models_resp = out.value,
                                      !.calls = Append(@, "async_invoke_tool")]
             /\ UNCHANGED <<refresh_idx, data, last_pub, first_refresh_done, tick_data>>
          \/ /\ out.kind = "raise"
             /\ caught = OpenClawAuthError
             /\ model_cache' = upd.cache
             /\ available_models' = upd.avail
             \* await self._try_refresh_token(): up to the first callback awaited
             /\ pc' = IF first = 0 THEN "invoke_tool" ELSE "refresh"
             /\ refresh_idx' = first
             /\ tick' = [tick EXCEPT !.models = out.cls, !.try_refresh = @ + 1,
                                      !.callbacks = Cardinality(Registered(entries)),
                                      !.calls = IF first = 0
                                                THEN Append(@, "async_invoke_tool") ELSE @]
             /\ UNCHANGED <<data, last_pub, first_refresh_done, tick_data>>
          \/ /\ out.kind = "raise"
             /\ caught = OpenClawApiError
             /\ model_cache' = upd.cache
             /\ available_models' = upd.avail
             /\ pc' = "invoke_tool"
             /\ tick' = [tick EXCEPT !.models = out.cls,
                                      !.calls = Append(@, "async_invoke_tool")]
             /\ UNCHANGED <<refresh_idx, data, last_pub, first_refresh_done, tick_data>>
          \/ /\ out.kind = "raise"
             /\ caught = ""
             /\ TickRaises
             /\ tick' = [tick EXCEPT !.models = out.cls, !.result = "raised"]
             /\ UNCHANGED <<model_cache, available_models>>
    /\ UNCHANGED <<consecutive_failures, last_tool_state, last_activity, entries,
                   fail_run, fails_since_alive, cache_before_run, clientVars, otherVars>>

\* coordinator._try_refresh_token, lines 191-197: the awaited callback of
\* entry refresh_idx completes, having read file from the config file
RefreshDone(file) ==
    /\ pc = "refresh"
    /\ LET r == RefreshCallback(entries[refresh_idx], file)
           es == [entries EXCEPT ![refresh_idx] = r.entry]
           next == NextCallback(es, refresh_idx + 1)
           last == r.changed \/ next = 0
       IN /\ entries' = es
          /\ tick' = [tick EXCEPT !.hook_calls = @ + 1,
                                   !.hook = [idx |-> refresh_idx, file |-> file,
                                             changed |-> r.changed,
                                             before |-> entries[refresh_idx]],
                                   !.calls = IF last
                                             THEN Append(@, "async_invoke_tool") ELSE @]
          /\ IF last
             THEN pc' = "invoke_tool" /\ refresh_idx' = 0
             ELSE pc' = "refresh" /\ refresh_idx' = next
    /\ UNCHANGED <<coordVars, first_refresh_done, tick_data, fail_run, fails_since_alive,
                   cache_before_run, last_pub, clientVars, otherVars>>

\* lines 162-186: async_invoke_tool completes on response resp, and the
\* tick returns
InvokeToolDone(resp) ==
    /\ pc = "invoke_tool"
    /\ LET out == async_invoke_tool(resp)
           caught == IF out.kind = "raise" THEN Handler(out.cls, SessionsHandlers) ELSE ""
       IN \/ /\ out.kind = "return"
             /\ LET d == WithSessions(tick_data, ParseSessions(out.value))
                IN TickReturns(MergeCaches(d, model_cache, last_tool_state))
             /\ tick' = [tick EXCEPT !.sessions = "ok", !.result = "returned"]
          \/ /\ out.kind = "raise"
             /\ caught = OpenClawApiError
             /\ TickReturns(MergeCaches(tick_data, model_cache, last_tool_state))
             /\ tick' = [tick EXCEPT !.sessions = out.cls, !.result = "returned"]
          \/ /\ out.kind = "raise"
             /\ caught = ""
             /\ TickRaises
             /\ tick' = [tick EXCEPT !.sessions = out.cls, !.result = "raised"]
    /\ UNCHANGED <<model_cache, available_models, consecutive_failures, last_tool_state,
                   last_activity, entries, fail_run, fails_since_alive, cache_before_run,
                   clientVars, otherVars>>

(* ---------------------------------------------------------------------- *)
(* Calls from outside the tick                                             *)
(* ---------------------------------------------------------------------- *)
\* lines 221-228: the new self._last_tool_state
ToolState(inv, at) ==
    (DATA_LAST_TOOL_NAME :> PyStr(inv.tool_name))
        @@ (DATA_LAST_TOOL_STATUS :> PyStr(IF inv.ok THEN "ok" ELSE "error"))
        @@ (DATA_LAST_TOOL_DURATION_MS :> PyInt(inv.duration_ms))
        @@ (DATA_LAST_TOOL_INVOKED_AT :> PyTime(at))
        @@ (DATA_LAST_TOOL_ERROR :> inv.error_message)
        @@ (DATA_LAST_TOOL_RESULT_PREVIEW :> inv.result_preview)

\* mutant: before the first poll only the tool fields are published
ToolSnapshotBare(published, offline, tool) ==
    DictUpdate(IF published = None THEN EmptyDict ELSE published, tool)

\* mutant: the published snapshot is republished as it is
ToolSnapshotUnmerged(published, offline, tool) ==
    IF published = None THEN offline ELSE published

\* mutant: the snapshot is rebuilt from the offline state
ToolSnapshotFromOffline(published, offline, tool) == DictUpdate(offline, tool)

\* lines 229-230: the snapshot record_tool_invocation publishes
ToolSnapshot(published, offline, tool) ==
    DictUpdate(IF published = None THEN offline ELSE published, tool)

\* called at time at (datetime.now)
record_tool_invocation(inv, at) ==
    /\ last_tool_state' = ToolState(inv, at)
    /\ data' = ToolSnapshot(data,
                            _offline_data(model_cache, last_activity, ToolState(inv, at)),
                            ToolState(inv, at))
    /\ last_pub' = "tool"
    /\ UNCHANGED <<model_cache, available_models, consecutive_failures, last_activity,
                   hassVars, tickVars, clientVars, otherVars>>

\* called at time at (datetime.now)
update_last_activity(at) ==
    /\ last_activity' = PyTime(at)
    /\ UNCHANGED <<model_cache, available_models, consecutive_failures, last_tool_state,
                   data, hassVars, tickVars, last_pub, clientVars, otherVars>>

\* __init__.py, async_setup_entry lines 173-175 and _async_setup_token_refresh:
\* entry i registers its refresh callback; entry 1 is the coordinator's own,
\* set up after its first refresh
SetupTokenRefresh(i) ==
    /\ entries[i].has_path
    /\ ~entries[i].refresh_token
    /\ i = 1 => first_refresh_done
    /\ entries' = [entries EXCEPT ![i].refresh_token = TRUE]
    /\ UNCHANGED <<coordVars, first_refresh_done, tickVars, last_pub, clientVars, otherVars>>

Next ==
    \/ TickStart
    \/ \E resp \in AliveResponses : CheckAliveDone(resp)
    \/ \E resp \in ModelsResponses : GetModelsDone(resp)
    \/ \E file \in ConfigFiles : RefreshDone(file)
    \/ \E resp \in ToolResponses : InvokeToolDone(resp)
    \/ \E inv \in ToolInvocations, at \in Times : record_tool_invocation(inv, at)
    \/ \E at \in Times : update_last_activity(at)
    \/ \E i \in 1..Len(entries) : SetupTokenRefresh(i)

\* the coordinator with its gateway, its callers and the entries of hass.data
Spec == Init /\ [][Next]_vars

\* the poll ticks alone, on every kind of response to the probe
ProbeModels ==
    {HttpResponse(401, CtJson, Text(3), None),
     HttpResponse(200, CtJson, <<>>, [data |-> PyList(<<ModelX>>)])}
ProbeTools ==
    {NetFailure(TimeoutError),
     HttpResponse(200, CtJson, <<>>,
                  PyDict([ok |-> PyBool(TRUE), result |-> PyList(<<SessionA, SessionB>>)]))}

ProbeNext ==
    \/ TickStart
    \/ \E resp \in ProbeResponses : CheckAliveDone(resp)
    \/ \E resp \in ProbeModels : GetModelsDone(resp)
    \/ \E file \in {"missing", "t1"} : RefreshDone(file)
    \/ \E resp \in ProbeTools : InvokeToolDone(resp)

SpecProbe == Init /\ [][ProbeNext]_vars

(* ---------------------------------------------------------------------- *)
(* The client operations, called on their own (config flow, services,      *)
(* conversation agent, diagnostics button)                                 *)
(* ---------------------------------------------------------------------- *)
Statuses == {200, 400, 401, 403, 404, 500, 503}
ContentTypes == {CtJson, CtProblemJson, CtHtml, CtNone}
Texts == {Text(0), Text(201), Text(301)}

\* responses to a JSON request
ClientResponses ==
    {NetFailure(e) : e \in NetErrors}
        \cup {HttpResponse(st, ct, tx, PyDict([ok |-> PyBool(TRUE)])) :
                  st \in Statuses, ct \in ContentTypes, tx \in Texts}

\* SSE bodies of a streamed completion
SseBodies ==
    { <<DeltaFrame(PyStr("A")), DeltaFrame(PyStr("B")), SseLine(TRUE, SseDone)>>,
      <<SseLine(FALSE, None), DeltaFrame(PyStr("A")), SseLine(TRUE, SseMalformed),
        DeltaFrame(PyStr("")), DeltaFrame(PyStr("B"))>>,
      <<DeltaFrame(PyStr("A")), SseLine(TRUE, SseDone), DeltaFrame(PyStr("B"))>>,
      <<DeltaFrame(None), SseLine(TRUE, PyDict([choices |-> PyList(<<>>)])),
        SseLine(TRUE, SseDone)>>,
      <<DeltaFrame(PyStr("A")), SseLine(TRUE, None), DeltaFrame(PyStr("B"))>>,
      <<DeltaFrame(PyStr("A")),
        SseLine(TRUE, PyDict([choices |-> PyList(<<PyDict([delta |-> None])>>)])),
        DeltaFrame(PyStr("B")), SseLine(TRUE, SseDone)>>,
      <<>> }

\* responses to a streamed completion request
StreamResponses ==
    {NetFailure(e) : e \in NetErrors}
        \cup {HttpResponse(st, ct, tx, None) :
                  st \in Statuses \ {200}, ct \in {CtJson, CtHtml}, tx \in Texts}
        \cup {SseResponse(200, b) : b \in SseBodies}

\* call: the operation called, whether a request went out, the response that
\* came back, the outcome, the headers of the request (None: no request, or
\* one without headers) and the session it was issued on
coordinatorVars == <<coordVars, hassVars, tickVars, last_pub>>

GetModels(resp) ==
    /\ _session' = _get_session(_session, opened)
    /\ opened' = Opened(_session, opened)
    /\ call' = [op |-> "async_get_models", sent |-> TRUE, resp |-> resp,
                out |-> async_get_models(resp), headers |-> _headers(_token),
                session |-> _session']
    /\ UNCHANGED <<_token, updated_to, coordinatorVars, otherVars>>

SendMessage(resp, stream) ==
    /\ _session' = IF stream THEN _session ELSE _get_session(_session, opened)
    /\ opened' = IF stream THEN opened ELSE Opened(_session, opened)
    /\ call' = [op |-> "async_send_message", sent |-> ~stream, stream |-> stream,
                resp |-> resp,
                out |-> async_send_message(resp, stream),
                headers |-> IF stream THEN None ELSE _headers(_token),
                session |-> IF stream THEN None ELSE _session']
    /\ UNCHANGED <<_token, updated_to, coordinatorVars, otherVars>>

StreamMessage(resp) ==
    /\ _session' = _get_session(_session, opened)
    /\ opened' = Opened(_session, opened)
    /\ call' = [op |-> "async_stream_message", sent |-> TRUE, resp |-> resp,
                out |-> async_stream_message(resp), headers |-> _headers(_token),
                session |-> _session']
    /\ UNCHANGED <<_token, updated_to, coordinatorVars, otherVars>>

CheckConnection(resp) ==
    /\ _session' = _get_session(_session, opened)
    /\ opened' = Opened(_session, opened)
    /\ call' = [op |-> "async_check_connection", sent |-> TRUE, resp |-> resp,
                out |-> async_check_connection(resp), headers |-> _headers(_token),
                session |-> _session']
    /\ UNCHANGED <<_token, updated_to, coordinatorVars, otherVars>>

CheckAlive(resp) ==
    /\ _session' = _get_session(_session, opened)
    /\ opened' = Opened(_session, opened)
    /\ call' = [op |-> "async_check_alive", sent |-> TRUE, resp |-> resp,
                out |-> async_check_alive(resp), headers |-> None,
                session |-> _session']
    /\ UNCHANGED <<_token, updated_to, coordinatorVars, otherVars>>

InvokeTool(resp) ==
    /\ _session' = _get_session(_session, opened)
    /\ opened' = Opened(_session, opened)
    /\ call' = [op |-> "async_invoke_tool", sent |-> TRUE, resp |-> resp,
                out |-> async_invoke_tool(resp), headers |-> _headers(_token),
                session |-> _session']
    /\ UNCHANGED <<_token, updated_to, coordinatorVars, otherVars>>

ClientNext ==
    \/ \E resp \in ClientResponses : GetModels(resp)
    \/ \E resp \in ClientResponses, stream \in BOOLEAN : SendMessage(resp, stream)
    \/ \E resp \in StreamResponses : StreamMessage(resp)
    \/ \E resp \in ClientResponses : CheckConnection(resp)
    \/ \E resp \in ClientResponses : CheckAlive(resp)
    \/ \E resp \in ClientResponses : InvokeTool(resp)

\* the client alone: every operation on every response
SpecClient == Init /\ [][ClientNext]_vars

(* ---------------------------------------------------------------------- *)
(* The client's token and HTTP session                                     *)
(* ---------------------------------------------------------------------- *)
MaxSessions == 3

\* api.py __init__: a client with the session handed in (Home Assistant's),
\* or with none
NewClient(injected) ==
    /\ opened < MaxSessions
    /\ _token' = "t0"
    /\ _session' = IF injected THEN Session(0, FALSE) ELSE None
    /\ updated_to' = NotUpdated
    /\ call' = NoCall
    /\ UNCHANGED <<opened, coordinatorVars, otherVars>>

\* mutant: the session is dropped with the old token
UpdateTokenDroppingSession(token) ==
    /\ _token' = token
    /\ _session' = None
    /\ updated_to' = [called |-> TRUE, token |-> token]
    /\ UNCHANGED <<call, opened, coordinatorVars, otherVars>>

\* api.py update_token
UpdateToken(token) ==
    /\ _token' = token
    /\ updated_to' = [called |-> TRUE, token |-> token]
    /\ UNCHANGED <<call, _session, opened, coordinatorVars, otherVars>>

\* api.py async_close; the session of Home Assistant is closed by Home
\* Assistant in the same way
Close ==
    /\ opened < MaxSessions
    /\ _session' = IF _session # None /\ ~_session.closed
                       THEN Session(_session.id, TRUE) ELSE _session
    /\ UNCHANGED <<call, _token, opened, updated_to, coordinatorVars, otherVars>>

\* one response of each kind
SessionResponses ==
    {NetFailure("ClientConnectorError"),
     HttpResponse(200, CtJson, Text(0), PyDict([ok |-> PyBool(TRUE)])),
     HttpResponse(401, CtJson, Text(0), PyDict([ok |-> PyBool(TRUE)]))}
SessionStreams ==
    {NetFailure("ClientConnectorError"), HttpResponse(401, CtJson, Text(0), None),
     SseResponse(200, <<DeltaFrame(PyStr("A")), SseLine(TRUE, SseDone)>>)}

SessionNext ==
    \/ \E injected \in BOOLEAN : NewClient(injected)
    \/ \E token \in Tokens : UpdateToken(token)
    \/ Close
    \/ \E resp \in SessionResponses : GetModels(resp)
    \/ \E resp \in SessionResponses, stream \in BOOLEAN : SendMessage(resp, stream)
    \/ \E resp \in SessionStreams : StreamMessage(resp)
    \/ \E resp \in SessionResponses : CheckConnection(resp)
    \/ \E resp \in SessionResponses : CheckAlive(resp)
    \/ \E resp \in SessionResponses : InvokeTool(resp)

\* one client over its life: requests, token updates and closes in any order
SpecSession == Init /\ [][SessionNext]_vars

(* ---------------------------------------------------------------------- *)
(* __init__.py: the in-memory chat history                                 *)
(* ---------------------------------------------------------------------- *)
_MAX_CHAT_HISTORY == 200

\* mutant: the newest entries are dropped
_append_chat_history_keep_oldest(store, session_id, role, content, at) ==
    LET history == IF session_id \in DOMAIN store THEN store[session_id] ELSE <<>>
        longer == Append(history, [role |-> role, content |-> content, timestamp |-> at])
    IN (session_id :>
            IF Len(longer) > _MAX_CHAT_HISTORY
            THEN SubSeq(longer, 1, _MAX_CHAT_HISTORY)
            ELSE longer) @@ store

\* the store after _append_chat_history(hass, session_id, role, content) at
\* time at: store.setdefault, append, del history[:-_MAX_CHAT_HISTORY]
_append_chat_history(store, session_id, role, content, at) ==
    LET history == IF session_id \in DOMAIN store THEN store[session_id] ELSE <<>>
        longer == Append(history, [role |-> role, content |-> content, timestamp |-> at])
    IN (session_id :>
            IF Len(longer) > _MAX_CHAT_HISTORY
            THEN SubSeq(longer, Len(longer) - _MAX_CHAT_HISTORY + 1, Len(longer))
            ELSE longer) @@ store

\* the n-th message of a session: its role (handle_send_message appends the
\* user's message, then the assistant's) and its content, told apart by n
RoleOf(n) == IF n % 2 = 1 THEN "user" ELSE "assistant"
ContentOf(n) == n

\* how many messages a session gets
AppendsBound(session_id) == IF session_id = "main" THEN MaxAppends ELSE MaxOtherAppends

\* a message is appended to the log of session_id at time at
AppendChatHistory(session_id, at) ==
    /\ appended[session_id] < AppendsBound(session_id)
    /\ LET n == appended[session_id] + 1
       IN /\ chat_history' = _append_chat_history(chat_history, session_id, RoleOf(n),
                                                  ContentOf(n), at)
          /\ appended' = [appended EXCEPT ![session_id] = n]
    /\ UNCHANGED <<coordinatorVars, clientVars, extractVars, flowVars, callerVars>>

HistoryNext == \E session_id \in Sessions, at \in Times : AppendChatHistory(session_id, at)

\* the chat history alone
SpecHistory == Init /\ [][HistoryNext]_vars

(* ---------------------------------------------------------------------- *)
(* __init__.py: extraction of the assistant text from a response           *)
(* ---------------------------------------------------------------------- *)
\* A string is the tuple of its characters; a dict is the tuple of its items
\* in insertion order, the order in which value.values() iterates.
PyItems(items) == [t |-> "dict", items |-> items]
Item(k, v) == [k |-> k, v |-> v]

Whitespace == {" ", "\t", "\n"}

\* mutant: the string is returned as it is
StripNothing(s) == s

RECURSIVE Strip(_)
\* str.strip()
Strip(s) ==
    IF s = <<>> THEN <<>>
    ELSE IF Head(s) \in Whitespace THEN Strip(Tail(s))
    ELSE IF s[Len(s)] \in Whitespace THEN Strip(SubSeq(s, 1, Len(s) - 1))
    ELSE s

RECURSIVE Join(_)
\* "\n".join(parts)
Join(parts) ==
    IF Len(parts) = 1 THEN parts[1]
    ELSE parts[1] \o <<"\n">> \o Join(Tail(parts))

\* key in value, value.get(key)
HasKey(items, key) == \E i \in 1..Len(items) : items[i].k = key
ItemGet(items, key) == items[CHOOSE i \in 1..Len(items) : items[i].k = key].v

\* mutant: text is tried before output_text
priority_keys_text_first ==
    <<"text", "output_text", "content", "message", "response", "answer", "choices",
      "output", "delta">>

\* lines 618-628
priority_keys ==
    <<"output_text", "text", "content", "message", "response", "answer", "choices",
      "output", "delta">>

RECURSIVE _extract_text_recursive(_, _)
RECURSIVE ExtractParts(_, _)
RECURSIVE ExtractPriority(_, _, _)
RECURSIVE ExtractValues(_, _)

\* lines 608-616: the texts extracted from the items of a list
ExtractParts(list, depth) ==
    IF list = <<>> THEN <<>>
    ELSE LET e == _extract_text_recursive(Head(list), depth)
         IN (IF Truthy(e) THEN <<e.v>> ELSE <<>>) \o ExtractParts(Tail(list), depth)

\* lines 630-636: the text of the first of keys whose value yields one
ExtractPriority(items, keys, depth) ==
    IF keys = <<>> THEN None
    ELSE IF ~HasKey(items, Head(keys)) THEN ExtractPriority(items, Tail(keys), depth)
    ELSE LET e == _extract_text_recursive(ItemGet(items, Head(keys)), depth)
         IN IF Truthy(e) THEN e ELSE ExtractPriority(items, Tail(keys), depth)

\* lines 638-641: the text of the first value that yields one
ExtractValues(items, depth) ==
    IF items = <<>> THEN None
    ELSE LET e == _extract_text_recursive(Head(items).v, depth)
         IN IF Truthy(e) THEN e ELSE ExtractValues(Tail(items), depth)

\* mutant: one more level is searched
_extract_text_recursive_deeper(value, depth) ==
    IF depth > 9 THEN None
    ELSE IF value.t = "str"
         THEN LET text == Strip(value.v)
              IN IF text /= <<>> THEN PyStr(text) ELSE None
    ELSE IF value.t = "list"
         THEN LET parts == ExtractParts(value.v, depth + 1)
              IN IF parts /= <<>> THEN PyStr(Join(parts)) ELSE None
    ELSE IF value.t = "dict"
         THEN LET e == ExtractPriority(value.items, priority_keys, depth + 1)
              IN IF Truthy(e) THEN e ELSE ExtractValues(value.items, depth + 1)
    ELSE None

_extract_text_recursive(value, depth) ==
    IF depth > 8 THEN None
    ELSE IF value.t = "str"
         THEN LET text == Strip(value.v)
              IN IF text /= <<>> THEN PyStr(text) ELSE None
    ELSE IF value.t = "list"
         THEN LET parts == ExtractParts(value.v, depth + 1)
              IN IF parts /= <<>> THEN PyStr(Join(parts)) ELSE None
    ELSE IF value.t = "dict"
         THEN LET e == ExtractPriority(value.items, priority_keys, depth + 1)
              IN IF Truthy(e) THEN e ELSE ExtractValues(value.items, depth + 1)
    ELSE None

\* _extract_assistant_message
_extract_assistant_message(response) == _extract_text_recursive(response, 0)

\* mutant: content is tried before text
agent_priority_keys_content_first ==
    <<"output_text", "content", "text", "message", "response", "answer", "choices",
      "output", "delta">>

\* conversation.py lines 239-249
agent_priority_keys ==
    <<"output_text", "text", "content", "message", "response", "answer", "choices",
      "output", "delta">>

RECURSIVE agent_extract_text_recursive(_, _)
RECURSIVE AgentExtractParts(_, _)
RECURSIVE AgentExtractPriority(_, _, _)
RECURSIVE AgentExtractValues(_, _)

\* conversation.py lines 229-237
AgentExtractParts(list, depth) ==
    IF list = <<>> THEN <<>>
    ELSE LET e == agent_extract_text_recursive(Head(list), depth)
         IN (IF Truthy(e) THEN <<e.v>> ELSE <<>>) \o AgentExtractParts(Tail(list), depth)

\* conversation.py lines 251-256
AgentExtractPriority(items, keys, depth) ==
    IF keys = <<>> THEN None
    ELSE IF ~HasKey(items, Head(keys)) THEN AgentExtractPriority(items, Tail(keys), depth)
    ELSE LET e == agent_extract_text_recursive(ItemGet(items, Head(keys)), depth)
         IN IF Truthy(e) THEN e ELSE AgentExtractPriority(items, Tail(keys), depth)

\* conversation.py lines 258-261
AgentExtractValues(items, depth) ==
    IF items = <<>> THEN None
    ELSE LET e == agent_extract_text_recursive(Head(items).v, depth)
         IN IF Truthy(e) THEN e ELSE AgentExtractValues(Tail(items), depth)

\* conversation.py OpenClawConversationAgent._extract_text_recursive, lines
\* 220-264
agent_extract_text_recursive(value, depth) ==
    IF depth > 8 THEN None
    ELSE IF value.t = "str"
         THEN LET text == Strip(value.v)
              IN IF text /= <<>> THEN PyStr(text) ELSE None
    ELSE IF value.t = "list"
         THEN LET parts == AgentExtractParts(value.v, depth + 1)
              IN IF parts /= <<>> THEN PyStr(Join(parts)) ELSE None
    ELSE IF value.t = "dict"
         THEN LET e == AgentExtractPriority(value.items, agent_priority_keys, depth + 1)
              IN IF Truthy(e) THEN e ELSE AgentExtractValues(value.items, depth + 1)
    ELSE None

\* strings of a response
Hello == <<"h", "e", "l", "l", "o">>
Padded == <<" ", "h", "i", "\n">>
Blank == <<" ", "\t">>
Deep == <<"d", "e", "e", "p">>

\* keys of a response: the priority keys and two others
ResponseKeys == {priority_keys[i] : i \in 1..Len(priority_keys)} \cup {"id", "note"}

\* values under a key
Leaves ==
    {PyStr(Hello), PyStr(Padded), PyStr(Blank), PyInt(7),
     PyList(<<PyStr(Blank), PyStr(Padded), PyStr(Hello)>>),
     PyItems(<<Item("note", PyStr(Deep))>>)}

RECURSIVE Nest(_, _)
\* leaf under k levels, dicts {"text": ...} and lists in turn
Nest(k, leaf) ==
    IF k = 0 THEN leaf
    ELSE IF k % 2 = 1 THEN PyItems(<<Item("text", Nest(k - 1, leaf))>>)
    ELSE PyList(<<Nest(k - 1, leaf)>>)

\* the responses: scalars, empty containers, dicts of one and of two keys,
\* and text nested up to MaxDepth levels deep
Responses ==
    {PyItems(<<>>), PyList(<<>>), None, PyItems(<<Item("content", PyItems(<<Item("text", PyStr(Hello))>>))>>)}
        \cup Leaves
        \cup {PyItems(<<Item(k, v)>>) : k \in {"text", "note"}, v \in Leaves}
        \cup UNION {{PyItems(<<Item(k1, v1), Item(k2, v2)>>) :
                         k2 \in ResponseKeys \ {k1},
                         v1 \in {PyStr(Hello), PyStr(Blank)},
                         v2 \in {PyStr(Padded), PyStr(Blank)}} : k1 \in ResponseKeys}
        \cup {Nest(k, PyStr(Deep)) : k \in 1..MaxDepth}

\* _extract_assistant_message is called on response, and the extractor of
\* the conversation agent on the same response
ExtractAssistantMessage(response) ==
    /\ extracted' = [called |-> TRUE, value |-> response,
                     result |-> _extract_assistant_message(response),
                     agent |-> agent_extract_text_recursive(response, 0)]
    /\ UNCHANGED <<coordinatorVars, clientVars, storeVars, callerVars, flowVars>>

ExtractNext == \E response \in Responses : ExtractAssistantMessage(response)

\* the extractor alone
SpecExtract == Init /\ [][ExtractNext]_vars

(* ---------------------------------------------------------------------- *)
(* conversation.py and __init__.py: the callers of the client              *)
(* ---------------------------------------------------------------------- *)
MaxRequests == 2

\* what a caller tells the user when the gateway call raised err
ErrorText(prefix, err) == [t |-> "error", prefix |-> prefix, cls |-> err.cls, what |-> err.what]

\* __init__.py line 441: the placeholder for a reply without text
NoReadableContent == PyStr(<<"Response received, but no readable message content was found.">>)

RECURSIVE full_response(_)
\* conversation.py lines 199-207: full_response += chunk for each delta
full_response(deltas) ==
    IF deltas = <<>> THEN PyStr("")
    ELSE PyStr(Head(deltas).v \o full_response(Tail(deltas)).v)

\* mutant: the completion request is sent whatever the stream yielded
_get_response_always_sending(sresp, mresp) ==
    LET s == async_stream_message(sresp)
        m == async_send_message(mresp, FALSE)
        text == agent_extract_text_recursive(m.value, 0)
    IN IF s.kind = "raise" THEN [out |-> s, ops |-> <<"async_stream_message">>]
       ELSE IF s.cls # ""
            THEN [out |-> Raise(s.cls, "", 0, <<>>), ops |-> <<"async_stream_message">>]
       ELSE [out |-> IF m.kind = "raise" THEN m
                     ELSE Return(IF Truthy(text) THEN text ELSE PyStr(<<>>)),
             ops |-> <<"async_stream_message", "async_send_message">>]

\* conversation.py _get_response: the stream answered sresp and, when it was
\* called, async_send_message answered mresp; the outcome and the client
\* operations called
_get_response(sresp, mresp) ==
    LET s == async_stream_message(sresp)
        m == async_send_message(mresp, FALSE)
        text == agent_extract_text_recursive(m.value, 0)
    IN IF s.kind = "raise" THEN [out |-> s, ops |-> <<"async_stream_message">>]
       ELSE IF s.cls # ""
            THEN [out |-> Raise(s.cls, "", 0, <<>>), ops |-> <<"async_stream_message">>]
       ELSE IF s.yielded # <<>>
            THEN [out |-> Return(full_response(s.yielded)), ops |-> <<"async_stream_message">>]
       ELSE [out |-> IF m.kind = "raise" THEN m
                     ELSE Return(IF Truthy(text) THEN text ELSE PyStr(<<>>)),
             ops |-> <<"async_stream_message", "async_send_message">>]

\* conversation.py async_process, lines 85-131: a turn of the agent of entry i
\* starts and awaits _get_response
AgentStart(i) ==
    /\ req.pc \in {"idle", "done"}
    /\ req.n < MaxRequests
    /\ req' = [NoRequest EXCEPT !.who = "agent", !.pc = "get_response", !.n = req.n + 1,
                                !.entry = i, !.hook = entries[i].refresh_token,
                                !.result = "running"]
    /\ UNCHANGED <<coordinatorVars, clientVars, storeVars, extractVars, flowVars>>

\* lines 133-190: _get_response completes, for the first or the second time
AgentGetResponseDone(sresp, mresp, at) ==
    /\ req.who = "agent" /\ req.pc = "get_response"
    /\ LET r == _get_response(sresp, mresp)
           typed == r.out.kind = "raise" /\ IsInstance(r.out.cls, OpenClawApiError)
           seen == [req EXCEPT !.tries = @ + 1, !.ops = @ \o r.ops,
                               !.first = IF req.tries = 0 /\ r.out.kind = "raise"
                                         THEN r.out.cls ELSE @,
                               !.last = IF r.out.kind = "raise" THEN r.out.cls ELSE "",
                               !.stream = async_stream_message(sresp),
                               !.sent = IF Len(r.ops) = 2 THEN mresp ELSE None]
       IN \/ /\ r.out.kind = "return"
             /\ req' = [seen EXCEPT !.pc = "done", !.result = "reply",
                                    !.message = r.out.value, !.events = @ + 1]
             /\ last_activity' = PyTime(at)
          \/ /\ typed
             /\ req.tries = 0
             /\ entries[req.entry].refresh_token
             /\ req' = [seen EXCEPT !.pc = "refresh"]
             /\ UNCHANGED last_activity
          \/ /\ typed
             /\ req.tries > 0 \/ ~entries[req.entry].refresh_token
             /\ req' = [seen EXCEPT !.pc = "done", !.result = "error_message",
                                    !.message = ErrorText("Error communicating with OpenClaw", r.out)]
             /\ UNCHANGED last_activity
          \/ /\ r.out.kind = "raise"
             /\ ~typed
             /\ req' = [seen EXCEPT !.pc = "done", !.result = "raised"]
             /\ UNCHANGED last_activity
    /\ UNCHANGED <<model_cache, available_models, consecutive_failures, last_tool_state,
                   data, hassVars, tickVars, last_pub, clientVars, storeVars, extractVars, flowVars>>

\* lines 144-165: the refresh callback of the entry completes, having read
\* file from the config file
AgentRefreshDone(file) ==
    /\ req.who = "agent" /\ req.pc = "refresh"
    /\ LET r == RefreshCallback(entries[req.entry], file)
       IN /\ entries' = [entries EXCEPT ![req.entry] = r.entry]
          /\ req' = IF r.changed
                    THEN [req EXCEPT !.pc = "get_response", !.refreshes = @ + 1,
                                     !.refreshed = TRUE]
                    ELSE [req EXCEPT !.pc = "done", !.refreshes = @ + 1,
                                     !.result = "error_message",
                                     !.message = [t |-> "error",
                                                  prefix |-> "Error communicating with OpenClaw",
                                                  cls |-> req.last, what |-> ""]]
    /\ UNCHANGED <<coordVars, first_refresh_done, tickVars, last_pub, clientVars,
                   storeVars, extractVars, flowVars>>

\* const.py line 42
DEFAULT_ENABLE_TOOL_CALLS == FALSE
CONF_ENABLE_TOOL_CALLS == "enable_tool_calls"

\* the tool calls that handle_send_message executes
SupportedTools == {PyStr("execute_service"), PyStr("execute_services")}

\* a str that json.loads parses to value, and one that it rejects
JsonText(value) == [t |-> "str", v |-> "json", json |-> value]
BadJsonText == [t |-> "str", v |-> "not json"]

\* value.get(key) on a dict
Get(value, key) == IF HasKey(value.items, key) THEN ItemGet(value.items, key) ELSE None

\* __init__.py _extract_tool_calls, lines 666-684: the dicts among
\* choices[0].message.tool_calls
_extract_tool_calls(response) ==
    LET choices == Get(response, "choices")
    IN IF choices.t # "list" \/ choices.v = <<>> THEN <<>>
       ELSE LET message == IF choices.v[1].t = "dict" THEN Get(choices.v[1], "message")
                           ELSE None
            IN IF message.t # "dict" THEN <<>>
               ELSE LET tool_calls == Get(message, "tool_calls")
                    IN IF tool_calls.t # "list" THEN <<>>
                       ELSE SelectSeq(tool_calls.v, LAMBDA c : c.t = "dict")

\* a result line and a call of hass.services.async_call made for the tool name
Line(what, domain, service) == [what |-> what, domain |-> domain, service |-> service]
Skipped(what) == Line(what, None, None)
ServiceCall(name, domain, service, ok) ==
    [tool |-> name, domain |-> domain, service |-> service, ok |-> ok]

RECURSIVE ExecuteItems(_, _, _)
\* lines 727-749: the services of one tool call; those in fails raise
ExecuteItems(name, services_list, fails) ==
    IF services_list = <<>> THEN [results |-> <<>>, calls |-> <<>>]
    ELSE LET item == Head(services_list)
             rest == ExecuteItems(name, Tail(services_list), fails)
         IN IF item.t # "dict" THEN rest
            ELSE LET domain == Get(item, "domain")
                     service == Get(item, "service")
                     ok == <<domain, service>> \notin fails
                 IN IF domain.t # "str" \/ service.t # "str"
                    THEN [results |-> <<Skipped("invalid service item")>> \o rest.results,
                          calls |-> rest.calls]
                    ELSE [results |-> <<Line(IF ok THEN "Executed" ELSE "Failed",
                                             domain, service)>> \o rest.results,
                          calls |-> <<ServiceCall(name, domain, service, ok)>> \o rest.calls]

RECURSIVE ExecuteCallsUnfiltered(_, _)
\* mutant: the name of the function is not looked at
ExecuteCallsUnfiltered(tool_calls, fails) ==
    IF tool_calls = <<>> THEN [results |-> <<>>, calls |-> <<>>]
    ELSE LET function_data == Get(Head(tool_calls), "function")
             rest == ExecuteCallsUnfiltered(Tail(tool_calls), fails)
             add(r) == [results |-> r.results \o rest.results, calls |-> r.calls \o rest.calls]
             skip(what) == add([results |-> <<Skipped(what)>>, calls |-> <<>>])
         IN IF function_data.t # "dict" THEN rest
            ELSE LET function_name == Get(function_data, "name")
                     arguments == Get(function_data, "arguments")
                 IN IF arguments.t # "str" THEN skip("invalid arguments format")
                    ELSE IF "json" \notin DOMAIN arguments THEN skip("invalid JSON arguments")
                    ELSE LET parsed == arguments.json
                             services_list == IF parsed.t = "dict" THEN Get(parsed, "list")
                                              ELSE None
                         IN IF services_list.t # "list" THEN skip("no list payload")
                            ELSE add(ExecuteItems(function_name, services_list.v, fails))

RECURSIVE ExecuteCalls(_, _)
\* lines 701-749: the tool calls in turn
ExecuteCalls(tool_calls, fails) ==
    IF tool_calls = <<>> THEN [results |-> <<>>, calls |-> <<>>]
    ELSE LET function_data == Get(Head(tool_calls), "function")
             rest == ExecuteCalls(Tail(tool_calls), fails)
             add(r) == [results |-> r.results \o rest.results, calls |-> r.calls \o rest.calls]
             skip(what) == add([results |-> <<Skipped(what)>>, calls |-> <<>>])
         IN IF function_data.t # "dict" THEN rest
            ELSE LET function_name == Get(function_data, "name")
                     arguments == Get(function_data, "arguments")
                 IN IF function_name \notin SupportedTools THEN skip("unsupported tool")
                    ELSE IF arguments.t # "str" THEN skip("invalid arguments format")
                    ELSE IF "json" \notin DOMAIN arguments THEN skip("invalid JSON arguments")
                    ELSE LET parsed == arguments.json
                             services_list == IF parsed.t = "dict" THEN Get(parsed, "list")
                                              ELSE None
                         IN IF services_list.t # "list" THEN skip("no list payload")
                            ELSE add(ExecuteItems(function_name, services_list.v, fails))

\* __init__.py _async_execute_tool_calls, lines 691-751: the result lines and
\* the services called for the tool calls of response
_async_execute_tool_calls(response, fails) ==
    ExecuteCalls(_extract_tool_calls(response), fails)

\* __init__.py handle_send_message, lines 382-420: a service call finds the
\* first entry, whose options are options, appends the user's message to the
\* log of the session and awaits async_send_message
ServiceStart(options, session_id, at) ==
    /\ req.pc \in {"idle", "done"}
    /\ req.n < MaxRequests
    /\ req' = [NoRequest EXCEPT !.who = "service", !.pc = "send", !.n = req.n + 1,
                                !.entry = 1, !.hook = entries[1].refresh_token,
                                !.result = "running", !.options = options]
    /\ chat_history' = _append_chat_history(chat_history, session_id, "user",
                                            PyStr(<<"message">>), at)
    /\ appended' = [appended EXCEPT ![session_id] = @ + 1]
    /\ UNCHANGED <<coordinatorVars, clientVars, extractVars, flowVars>>

\* mutant: a typed error also counts as activity
ServiceSendDoneTouchingOnError(resp, fails, session_id, at) ==
    /\ req.who = "service" /\ req.pc \in {"send", "send_tools"}
    /\ LET out == async_send_message(resp, FALSE)
           text == _extract_assistant_message(out.value)
           enabled == DictGetDefault(req.options, CONF_ENABLE_TOOL_CALLS,
                                     DEFAULT_ENABLE_TOOL_CALLS)
           tools == req.pc = "send" /\ out.kind = "return" /\ enabled
           executed == IF tools THEN _async_execute_tool_calls(out.value, fails)
                       ELSE [results |-> <<>>, calls |-> <<>>]
           seen == [req EXCEPT !.tries = IF req.pc = "send" THEN @ + 1 ELSE @,
                               !.followups = IF req.pc = "send" THEN @ ELSE @ + 1,
                               !.ops = Append(@, "async_send_message"),
                               !.first = IF req.pc = "send" /\ out.kind = "raise"
                                         THEN out.cls ELSE @,
                               !.last = IF out.kind = "raise" THEN out.cls ELSE "",
                               !.sent = resp,
                               !.tool_resp = IF tools THEN resp ELSE @,
                               !.services = @ \o executed.calls]
           tell(result, message) ==
               /\ req' = [seen EXCEPT !.pc = "done", !.result = result,
                                      !.message = message, !.events = @ + 1]
               /\ chat_history' = _append_chat_history(chat_history, session_id,
                                                       "assistant", message, at)
               /\ appended' = [appended EXCEPT ![session_id] = @ + 1]
       IN \/ /\ out.kind = "return"
             /\ executed.results # <<>>
             /\ req' = [seen EXCEPT !.pc = "send_tools"]
             /\ UNCHANGED <<last_activity, storeVars>>
          \/ /\ out.kind = "return"
             /\ executed.results = <<>>
             /\ tell("reply", IF Truthy(text) THEN text ELSE NoReadableContent)
             /\ last_activity' = PyTime(at)
          \/ /\ out.kind = "raise"
             /\ IsInstance(out.cls, OpenClawApiError)
             /\ tell("error_message", ErrorText("OpenClaw error", out))
             /\ last_activity' = PyTime(at)
          \/ /\ out.kind = "raise"
             /\ ~IsInstance(out.cls, OpenClawApiError)
             /\ req' = [seen EXCEPT !.pc = "done", !.result = "raised"]
             /\ UNCHANGED <<last_activity, storeVars>>
    /\ UNCHANGED <<model_cache, available_models, consecutive_failures, last_tool_state,
                   data, hassVars, tickVars, last_pub, clientVars, extractVars, flowVars>>

\* lines 416-469: async_send_message completes on resp, for the message or for
\* the results of the tool calls; when tool calls are enabled those of the
\* first response are executed, the services in fails raising
ServiceSendDone(resp, fails, session_id, at) ==
    /\ req.who = "service" /\ req.pc \in {"send", "send_tools"}
    /\ LET out == async_send_message(resp, FALSE)
           text == _extract_assistant_message(out.value)
           enabled == DictGetDefault(req.options, CONF_ENABLE_TOOL_CALLS,
                                     DEFAULT_ENABLE_TOOL_CALLS)
           tools == req.pc = "send" /\ out.kind = "return" /\ enabled
           executed == IF tools THEN _async_execute_tool_calls(out.value, fails)
                       ELSE [results |-> <<>>, calls |-> <<>>]
           seen == [req EXCEPT !.tries = IF req.pc = "send" THEN @ + 1 ELSE @,
                               !.followups = IF req.pc = "send" THEN @ ELSE @ + 1,
                               !.ops = Append(@, "async_send_message"),
                               !.first = IF req.pc = "send" /\ out.kind = "raise"
                                         THEN out.cls ELSE @,
                               !.last = IF out.kind = "raise" THEN out.cls ELSE "",
                               !.sent = resp,
                               !.tool_resp = IF tools THEN resp ELSE @,
                               !.services = @ \o executed.calls]
           tell(result, message) ==
               /\ req' = [seen EXCEPT !.pc = "done", !.result = result,
                                      !.message = message, !.events = @ + 1]
               /\ chat_history' = _append_chat_history(chat_history, session_id,
                                                       "assistant", message, at)
               /\ appended' = [appended EXCEPT ![session_id] = @ + 1]
       IN \/ /\ out.kind = "return"
             /\ executed.results # <<>>
             /\ req' = [seen EXCEPT !.pc = "send_tools"]
             /\ UNCHANGED <<last_activity, storeVars>>
          \/ /\ out.kind = "return"
             /\ executed.results = <<>>
             /\ tell("reply", IF Truthy(text) THEN text ELSE NoReadableContent)
             /\ last_activity' = PyTime(at)
          \/ /\ out.kind = "raise"
             /\ IsInstance(out.cls, OpenClawApiError)
             /\ tell("error_message", ErrorText("OpenClaw error", out))
             /\ UNCHANGED last_activity
          \/ /\ out.kind = "raise"
             /\ ~IsInstance(out.cls, OpenClawApiError)
             /\ req' = [seen EXCEPT !.pc = "done", !.result = "raised"]
             /\ UNCHANGED <<last_activity, storeVars>>
    /\ UNCHANGED <<model_cache, available_models, consecutive_failures, last_tool_state,
                   data, hassVars, tickVars, last_pub, clientVars, extractVars, flowVars>>

\* __init__.py line 645: max_len of _summarize_tool_result
SummaryMaxLen == 240

\* str(value)
Str(value) == IF value.t = "str" THEN value ELSE [t |-> "str", v |-> <<"str", value>>]

\* __init__.py _summarize_tool_result, lines 645-661; text is a tuple of
\* characters, json.dumps of another value is a text of its own
_summarize_tool_result(value, max_len) ==
    IF value = None THEN None
    ELSE IF value.t # "str" THEN [t |-> "str", v |-> <<"json.dumps", value>>]
    ELSE LET text == Strip(value.v)
         IN IF text = <<>> THEN None
            ELSE IF Len(text) > max_len
                 THEN PyStr(SubSeq(text, 1, max_len) \o <<"...">>)
                 ELSE PyStr(text)

\* handle_invoke_tool, lines 481-502: an invoke_tool service call for tool_name
\* finds the first entry and awaits async_invoke_tool
HandleInvokeToolStart(tool_name) ==
    /\ req.pc \in {"idle", "done"}
    /\ req.n < MaxRequests
    /\ req' = [NoRequest EXCEPT !.who = "invoke_tool", !.pc = "invoke", !.n = req.n + 1,
                                !.entry = 1, !.result = "running", !.tool_name = tool_name]
    /\ UNCHANGED <<coordinatorVars, clientVars, storeVars, extractVars, flowVars>>

\* mutant: a typed error of the gateway is raised again at once
HandleInvokeToolDoneRaisingAtOnce(resp, duration_ms, at) ==
    /\ req.who = "invoke_tool" /\ req.pc = "invoke"
    /\ LET out == async_invoke_tool(resp)
           response == out.value
           typed == out.kind = "raise" /\ IsInstance(out.cls, OpenClawApiError)
           is_dict == response.t = "dict"
           ok == IF out.kind = "raise" THEN FALSE
                 ELSE IF is_dict THEN Truthy(DictGetDefault(response.v, "ok", PyBool(TRUE)))
                 ELSE TRUE
           result == IF out.kind = "raise" THEN None
                     ELSE IF is_dict THEN DictGet(response.v, "result") ELSE response
           error_message ==
               IF out.kind = "raise" THEN PyStr(out.what)
               ELSE IF is_dict /\ Truthy(DictGet(response.v, "error"))
                    THEN Str(DictGet(response.v, "error")) ELSE None
           inv == [tool_name |-> req.tool_name, ok |-> ok, duration_ms |-> duration_ms,
                   error_message |-> error_message,
                   result_preview |-> _summarize_tool_result(result, SummaryMaxLen)]
       IN \/ /\ out.kind = "return"
             /\ last_tool_state' = ToolState(inv, at)
             /\ data' = ToolSnapshot(data,
                                     _offline_data(model_cache, last_activity, ToolState(inv, at)),
                                     ToolState(inv, at))
             /\ last_pub' = "tool"
             /\ req' = [req EXCEPT !.pc = "done",
                                   !.ops = <<"async_invoke_tool", "record_tool_invocation",
                                             "async_fire">>
                                           \o IF ok THEN <<>> ELSE <<"raise">>,
                                   !.recorded = Append(@, inv),
                                   !.events = @ + 1,
                                   !.result = IF ok THEN "returned" ELSE "raised",
                                   !.last = IF ok THEN "" ELSE OpenClawApiError,
                                   !.message = IF ok THEN None
                                               ELSE IF Truthy(error_message) THEN error_message
                                               ELSE PyStr("Tool invocation failed")]
          \/ /\ out.kind = "raise"
             /\ req' = [req EXCEPT !.pc = "done",
                                   !.ops = <<"async_invoke_tool", "raise">>,
                                   !.result = "raised", !.last = out.cls]
             /\ UNCHANGED <<last_tool_state, data, last_pub>>
    /\ UNCHANGED <<model_cache, available_models, consecutive_failures, last_activity,
                   hassVars, tickVars, clientVars, storeVars, extractVars, flowVars>>

\* lines 503-546: async_invoke_tool completes on resp after duration_ms; the
\* invocation is recorded at time at, the tool-invoked event is fired and the
\* call fails when the invocation did
HandleInvokeToolDone(resp, duration_ms, at) ==
    /\ req.who = "invoke_tool" /\ req.pc = "invoke"
    /\ LET out == async_invoke_tool(resp)
           response == out.value
           typed == out.kind = "raise" /\ IsInstance(out.cls, OpenClawApiError)
           is_dict == response.t = "dict"
           ok == IF out.kind = "raise" THEN FALSE
                 ELSE IF is_dict THEN Truthy(DictGetDefault(response.v, "ok", PyBool(TRUE)))
                 ELSE TRUE
           result == IF out.kind = "raise" THEN None
                     ELSE IF is_dict THEN DictGet(response.v, "result") ELSE response
           error_message ==
               IF out.kind = "raise" THEN PyStr(out.what)
               ELSE IF is_dict /\ Truthy(DictGet(response.v, "error"))
                    THEN Str(DictGet(response.v, "error")) ELSE None
           inv == [tool_name |-> req.tool_name, ok |-> ok, duration_ms |-> duration_ms,
                   error_message |-> error_message,
                   result_preview |-> _summarize_tool_result(result, SummaryMaxLen)]
       IN \/ /\ out.kind = "return" \/ typed
             /\ last_tool_state' = ToolState(inv, at)
             /\ data' = ToolSnapshot(data,
                                     _offline_data(model_cache, last_activity, ToolState(inv, at)),
                                     ToolState(inv, at))
             /\ last_pub' = "tool"
             /\ req' = [req EXCEPT !.pc = "done",
                                   !.ops = <<"async_invoke_tool", "record_tool_invocation",
                                             "async_fire">>
                                           \o IF ok THEN <<>> ELSE <<"raise">>,
                                   !.recorded = Append(@, inv),
                                   !.events = @ + 1,
                                   !.result = IF ok THEN "returned" ELSE "raised",
                                   !.last = IF ok THEN "" ELSE OpenClawApiError,
                                   !.message = IF ok THEN None
                                               ELSE IF Truthy(error_message) THEN error_message
                                               ELSE PyStr("Tool invocation failed")]
          \/ /\ out.kind = "raise" /\ ~typed
             /\ req' = [req EXCEPT !.pc = "done",
                                   !.ops = <<"async_invoke_tool", "raise">>,
                                   !.result = "raised", !.last = out.cls]
             /\ UNCHANGED <<last_tool_state, data, last_pub>>
    /\ UNCHANGED <<model_cache, available_models, consecutive_failures, last_activity,
                   hassVars, tickVars, clientVars, storeVars, extractVars, flowVars>>

\* what the gateway answers POST /tools/invoke
InvokeReplies ==
    {HttpResponse(401, CtJson, Text(0), None), HttpResponse(500, CtHtml, Text(3), None),
     HttpResponse(200, CtHtml, Text(3), None), NetFailure(TimeoutError),
     HttpResponse(200, CtJson, <<>>, PyDict([ok |-> PyBool(TRUE), result |-> PyStr(Padded)])),
     HttpResponse(200, CtJson, <<>>, PyDict([ok |-> PyBool(FALSE), error |-> PyStr("denied")])),
     HttpResponse(200, CtJson, <<>>, PyDict([ok |-> PyBool(FALSE)])),
     HttpResponse(200, CtJson, <<>>, PyDict([result |-> None])),
     HttpResponse(200, CtJson, <<>>, PyList(<<>>))}

\* what the gateway answers a streamed completion request
CallerStreams ==
    {HttpResponse(401, CtJson, Text(0), None), HttpResponse(403, CtJson, Text(0), None),
     NetFailure(TimeoutError),
     SseResponse(200, <<DeltaFrame(PyStr("A")), DeltaFrame(PyStr("B")), SseLine(TRUE, SseDone)>>),
     SseResponse(200, <<SseLine(TRUE, SseDone)>>),
     SseResponse(200, <<SseLine(TRUE, None)>>),
     SseResponse(200, <<DeltaFrame(PyStr("A")), SseLine(TRUE, None)>>)}

\* and a completion request
CallerReplies ==
    {HttpResponse(401, CtJson, Text(0), None), HttpResponse(500, CtHtml, Text(3), None),
     HttpResponse(200, CtJson, <<>>, PyItems(<<Item("text", PyStr(Hello))>>)),
     HttpResponse(200, CtJson, <<>>, PyItems(<<Item("id", PyInt(7))>>))}

\* services that a tool call names
LightOn == PyItems(<<Item("domain", PyStr("light")), Item("service", PyStr("turn_on"))>>)
LockOpen == PyItems(<<Item("domain", PyStr("lock")), Item("service", PyStr("open"))>>)
NoDomain == PyItems(<<Item("service", PyStr("open"))>>)

\* a tool call of the function name with the arguments
ToolCall(name, arguments) ==
    PyItems(<<Item("function", PyItems(<<Item("name", PyStr(name)),
                                         Item("arguments", arguments)>>))>>)
ServicesArgs(list) == JsonText(PyItems(<<Item("list", PyList(list))>>))

\* a completion whose first choice says hello and carries the tool calls
WithToolCalls(tool_calls) ==
    HttpResponse(200, CtJson, <<>>,
        PyItems(<<Item("choices", PyList(<<PyItems(<<Item("message",
            PyItems(<<Item("content", PyStr(Hello)),
                      Item("tool_calls", PyList(tool_calls))>>))>>)>>))>>))

\* completions with tool calls: two services under execute_services after an
\* unsupported tool with a well-formed list; execute_service with arguments
\* that are not JSON and an item without domain
ToolReplies ==
    {WithToolCalls(<<ToolCall("get_weather", ServicesArgs(<<LockOpen>>)),
                     ToolCall("execute_services", ServicesArgs(<<LightOn, LockOpen>>))>>),
     WithToolCalls(<<ToolCall("execute_service", BadJsonText),
                     ToolCall("execute_service", ServicesArgs(<<NoDomain, LightOn>>))>>)}

\* the options of the entry, and the services that fail
EntryOptions == {<<>>, (CONF_ENABLE_TOOL_CALLS :> TRUE), (CONF_ENABLE_TOOL_CALLS :> FALSE)}
Failing == {{}, {<<PyStr("light"), PyStr("turn_on")>>}}

\* the entries are set up (a first refresh that finds the gateway down, then
\* the registration of the callbacks); the agent and the service are called
CallersNext ==
    \/ TickStart
    \/ CheckAliveDone(HttpResponse(500, CtHtml, Text(3), None))
    \/ \E i \in 1..Len(entries) : SetupTokenRefresh(i)
    \/ \E i \in 1..Len(entries) : AgentStart(i)
    \/ \E sresp \in CallerStreams, mresp \in CallerReplies, at \in Times :
           AgentGetResponseDone(sresp, mresp, at)
    \/ \E file \in {"no_token", "t0", "t1"} : AgentRefreshDone(file)
    \/ \E options \in EntryOptions, at \in Times : ServiceStart(options, "main", at)
    \/ \E resp \in CallerReplies \cup ToolReplies, fails \in Failing, at \in Times :
           ServiceSendDone(resp, fails, "main", at)


\* the conversation agent and the send_message service
SpecCallers == Init /\ [][CallersNext]_vars

\* invoke_tool service calls, before and after the coordinator has polled a
\* gateway that is down
InvokeNext ==
    \/ TickStart
    \/ CheckAliveDone(HttpResponse(500, CtHtml, Text(3), None))
    \/ \E tool_name \in {"x", "y"} : HandleInvokeToolStart(tool_name)
    \/ \E resp \in InvokeReplies, at \in Times : HandleInvokeToolDone(resp, 12, at)

\* the invoke_tool service
SpecInvoke == Init /\ [][InvokeNext]_vars

(* ---------------------------------------------------------------------- *)
(* config_flow.py: the config flow                                         *)
(* ---------------------------------------------------------------------- *)
\* const.py lines 15-16
DEFAULT_GATEWAY_HOST == "127.0.0.1"
DEFAULT_GATEWAY_PORT == 18789

\* what _async_try_discover_addon returns when it finds the addon
Discovered ==
    [gateway_host |-> DEFAULT_GATEWAY_HOST, gateway_port |-> DEFAULT_GATEWAY_PORT,
     gateway_token |-> "t0", use_ssl |-> FALSE, addon_config_path |-> "/addon_configs/openclaw"]

\* what the user submits in the manual form
UserInputs ==
    {[gateway_host |-> h, gateway_port |-> DEFAULT_GATEWAY_PORT, gateway_token |-> t,
      use_ssl |-> ssl] : h \in {DEFAULT_GATEWAY_HOST, "gw.lan"}, t \in {"t0", "t1"},
                         ssl \in BOOLEAN}

\* lines 210-226: a client for the connection calls async_check_connection,
\* which the gateway answers with resp
_async_validate_connection(resp) == async_check_connection(resp)

\* mutant: the handler of OpenClawApiError comes first
ValidationErrorsApiFirst(out) ==
    LET caught == IF out.kind = "raise"
                  THEN Handler(out.cls, <<OpenClawApiError, OpenClawAuthError,
                                          OpenClawConnectionError>>)
                  ELSE ""
        errors == CASE caught = OpenClawAuthError -> ("base" :> "invalid_auth")
                    [] caught = OpenClawConnectionError -> ("base" :> "cannot_connect")
                    [] caught = OpenClawApiError -> ("base" :> "openai_api_disabled")
                    [] OTHER -> <<>>
        connected == out.kind = "return" /\ out.value
    IN IF ~connected /\ "base" \notin DOMAIN errors
       THEN ("base" :> "cannot_connect") ELSE errors

\* lines 268-292 and 322-347: the errors of the form after the validation
\* ended as out; the except clauses in their order, then the default
ValidationErrors(out) ==
    LET caught == IF out.kind = "raise"
                  THEN Handler(out.cls, <<OpenClawAuthError, OpenClawConnectionError,
                                          OpenClawApiError>>)
                  ELSE ""
        errors == CASE caught = OpenClawAuthError -> ("base" :> "invalid_auth")
                    [] caught = OpenClawConnectionError -> ("base" :> "cannot_connect")
                    [] caught = OpenClawApiError -> ("base" :> "openai_api_disabled")
                    [] OTHER -> <<>>
        connected == out.kind = "return" /\ out.value
    IN IF ~connected /\ "base" \notin DOMAIN errors
       THEN ("base" :> "cannot_connect") ELSE errors

\* the step step_id has validated the connection data against resp
Submitted(step_id, connection, resp) ==
    LET out == _async_validate_connection(resp)
        escapes == out.kind = "raise" /\ ~IsInstance(out.cls, OpenClawApiError)
    IN flow' = IF escapes
               THEN [flow EXCEPT !.result = "raised", !.probed = resp]
               ELSE IF out.kind = "return" /\ out.value
               THEN [flow EXCEPT !.result = "create_entry", !.errors = <<>>,
                                 !.probed = resp, !.created = connection,
                                 !.entry = [data |-> connection, probed |-> resp]]
               ELSE [flow EXCEPT !.result = "form", !.step_id = step_id,
                                 !.errors = ValidationErrors(out), !.probed = resp]

\* lines 243-258: a flow starts; it aborts when an entry exists, asks to
\* confirm the addon when discovery found it, and shows the manual form
\* otherwise
async_step_user(discovered) ==
    /\ flow.result \in {"none", "abort", "create_entry", "raised"}
    /\ flow' = IF flow.entry # None
               THEN [NoFlow EXCEPT !.result = "abort", !.entry = flow.entry]
               ELSE [NoFlow EXCEPT !.result = "form",
                                   !.step_id = IF discovered # None THEN "confirm"
                                               ELSE "manual"]
    /\ UNCHANGED <<coordinatorVars, clientVars, storeVars, extractVars, callerVars, applied>>

\* lines 260-305: the user confirms the discovered addon
async_step_confirm(resp) ==
    /\ flow.result = "form" /\ flow.step_id = "confirm"
    /\ Submitted("confirm", Discovered, resp)
    /\ UNCHANGED <<coordinatorVars, clientVars, storeVars, extractVars, callerVars, applied>>

\* lines 307-362: the user submits the manual form
async_step_manual(user_input, resp) ==
    /\ flow.result = "form" /\ flow.step_id = "manual"
    /\ Submitted("manual", user_input, resp)
    /\ UNCHANGED <<coordinatorVars, clientVars, storeVars, extractVars, callerVars, applied>>

\* what the gateway answers the validation
FlowResponses ==
    {NetFailure(e) : e \in NetErrors}
        \cup {HttpResponse(st, ct, Text(3), None) :
                  st \in {200, 401, 403, 404, 500, 503}, ct \in {CtJson, CtProblemJson, CtHtml}}

FlowNext ==
    \/ \E discovered \in {None, Discovered} : async_step_user(discovered)
    \/ \E resp \in FlowResponses : async_step_confirm(resp)
    \/ \E user_input \in UserInputs, resp \in FlowResponses : async_step_manual(user_input, resp)

\* the config flow alone
SpecFlow == Init /\ [][FlowNext]_vars

(* ---------------------------------------------------------------------- *)
(* exposure.py: the context policy                                         *)
(* ---------------------------------------------------------------------- *)
MaxContext == 60

\* line 83: "\n[Context truncated to fit configured max length]\n"
marker ==
    <<
      "\n", "[", "C", "o", "n", "t", "e", "x", "t", " ", "t", "r", "u",
      "n", "c", "a", "t", "e", "d", " ", "t", "o", " ", "f", "i", "t",
      " ", "c", "o", "n", "f", "i", "g", "u", "r", "e", "d", " ", "m",
      "a", "x", " ", "l", "e", "n", "g", "t", "h", "]", "\n">>

\* s[-n:] for 0 < n
Tail_(s, n) == IF n >= Len(s) THEN s ELSE SubSeq(s, Len(s) - n + 1, Len(s))

\* mutant: the marker is put before max_chars characters of the context
apply_context_policy_marker_on_top(context_text, max_chars, strategy) ==
    IF context_text = None \/ context_text.v = <<>> THEN None
    ELSE IF max_chars <= 0 THEN None
    ELSE IF Len(context_text.v) <= max_chars THEN context_text
    ELSE IF strategy = "clear" THEN None
    ELSE PyStr(marker \o Tail_(context_text.v, max_chars))

\* lines 66-88
apply_context_policy(context_text, max_chars, strategy) ==
    IF context_text = None \/ context_text.v = <<>> THEN None
    ELSE IF max_chars <= 0 THEN None
    ELSE IF Len(context_text.v) <= max_chars THEN context_text
    ELSE IF strategy = "clear" THEN None
    ELSE LET available == max_chars - Len(marker)
         IN IF available <= 0 THEN PyStr(Tail_(context_text.v, max_chars))
            ELSE PyStr(marker \o Tail_(context_text.v, available))

\* a context of n characters
Context(n) == PyStr([i \in 1..n |-> <<"a", "b", "c">>[(i % 3) + 1]])

\* the contexts: none, empty, short, and around the length of the marker
Contexts ==
    {None, Context(0), Context(1), Context(3)}
        \cup {Context(n) : n \in (MaxContext - 10)..MaxContext}

\* the limits: negative, zero, short, and around the length of the marker
Limits == {-1, 0, 1, 2, 3} \cup ((MaxContext - 11)..(MaxContext - 4))

\* apply_context_policy is called
ApplyContextPolicy(context_text, max_chars, strategy) ==
    /\ applied' = [called |-> TRUE, context_text |-> context_text, max_chars |-> max_chars,
                   strategy |-> strategy,
                   result |-> apply_context_policy(context_text, max_chars, strategy)]
    /\ UNCHANGED <<coordinatorVars, clientVars, storeVars, extractVars, callerVars, flow>>

PolicyNext ==
    \E context_text \in Contexts, max_chars \in Limits,
       strategy \in {"clear", "truncate", "other"} :
        ApplyContextPolicy(context_text, max_chars, strategy)

\* the context policy alone
SpecPolicy == Init /\ [][PolicyNext]_vars

(* ---------------------------------------------------------------------- *)
(* Properties of the coordinator (checked under Spec)                      *)
(* ---------------------------------------------------------------------- *)
\* data is the snapshot that the last completed tick returned
PublishedByTick == last_pub = "tick"

Online(d) == d[DATA_CONNECTED] = TRUE /\ d[DATA_STATUS] = "online"
Offline(d) == d[DATA_CONNECTED] = FALSE /\ d[DATA_STATUS] = "offline"

\* C1: during a run of consecutive ticks whose liveness probe raises
\* OpenClawConnectionError, the snapshot each of them publishes is offline and
\* not connected, and carries the model, provider and context window that the
\* model cache held before the first of them.
C1_DegradeLaw ==
    (fail_run >= 1 /\ PublishedByTick) =>
        /\ Offline(data)
        /\ data[DATA_MODEL] = DictGet(cache_before_run, DATA_MODEL)
        /\ data[DATA_PROVIDER] = DictGet(cache_before_run, DATA_PROVIDER)
        /\ data[DATA_CONTEXT_WINDOW] = DictGet(cache_before_run, DATA_CONTEXT_WINDOW)

\* three consecutive failing ticks after gpt-x was cached
C1_Witness ==
    /\ fail_run = 3
    /\ PublishedByTick
    /\ DictGet(cache_before_run, DATA_MODEL) = PyStr("gpt-x")
    /\ data[DATA_MODEL] = PyStr("gpt-x")

\* a snapshot with every key, whose status and connected flag agree
ValidSnapshot(d) ==
    /\ DOMAIN d = SnapshotKeys
    /\ d[DATA_STATUS] \in {"online", "offline"}
    /\ d[DATA_CONNECTED] = (d[DATA_STATUS] = "online")

C3_SecondaryFailuresStayOnline ==
    (pc = "idle" /\ tick.alive = "true") =>
        /\ tick.result = "returned"
        /\ PublishedByTick => Online(data)

\* online although both secondary calls failed
C3_Witness ==
    /\ pc = "idle"
    /\ tick.alive = "true"
    /\ tick.models = OpenClawApiError
    /\ tick.sessions = OpenClawConnectionError
    /\ PublishedByTick
    /\ Online(data)

\* a tick has ended in which the probe succeeded and async_get_models raised
\* OpenClawAuthError
AuthFailedTick == pc = "idle" /\ tick.alive = "true" /\ tick.models = OpenClawAuthError

C8_SnapshotComplete ==
    data /= None =>
        /\ DOMAIN data = SnapshotKeys
        /\ data[DATA_STATUS] \in {"online", "offline"}
        /\ data[DATA_CONNECTED] \in BOOLEAN
        /\ data[DATA_SESSION_COUNT] \in Nat
        /\ data[DATA_SESSIONS] \in Seq({SessionA, SessionB})
        /\ data[DATA_MODEL].t \in {"none", "str"}
        /\ data[DATA_PROVIDER].t \in {"none", "str"}
        /\ data[DATA_CONTEXT_WINDOW].t \in {"none", "int"}
        /\ data[DATA_LAST_ACTIVITY].t \in {"none", "datetime"}
        /\ data[DATA_GATEWAY_VERSION] = None
        /\ data[DATA_UPTIME] = None
        /\ data[DATA_LAST_TOOL_NAME].t \in {"none", "str"}
        /\ data[DATA_LAST_TOOL_STATUS] \in {None, PyStr("ok"), PyStr("error")}
        /\ data[DATA_LAST_TOOL_DURATION_MS].t \in {"none", "int"}
        /\ data[DATA_LAST_TOOL_INVOKED_AT].t \in {"none", "datetime"}
        /\ data[DATA_LAST_TOOL_ERROR].t \in {"none", "str"}
        /\ data[DATA_LAST_TOOL_RESULT_PREVIEW].t \in {"none", "str"}

\* record_tool_invocation published before the first tick
C8_Witness ==
    /\ last_pub = "tool"
    /\ tick.result = "none"
    /\ data[DATA_STATUS] = "offline"
    /\ data[DATA_LAST_TOOL_NAME] = PyStr("x")
    /\ data[DATA_MODEL] = None

\* C9: a tick in which async_get_models did not succeed (the probe failed, or
\* the call raised) leaves the model cache and the available models as they
\* were when the tick started.
C9_CacheSurvivesFailedPolls ==
    (tick.result /= "none" /\ tick.models /= "ok") =>
        /\ model_cache = tick.cache_before
        /\ available_models = tick.avail_before

\* a cache that survived an authentication failure of async_get_models
C9_Witness ==
    /\ pc = "idle"
    /\ tick.models = OpenClawAuthError
    /\ DOMAIN model_cache /= {}
    /\ available_models /= <<>>

\* the model list of a /v1/models body
ListedModels(body) ==
    IF "data" \in DOMAIN body /\ body["data"].t = "list" THEN body["data"].v ELSE <<>>

\* the ids of the listed models that have a non-empty one, in order
ListedIds(models) ==
    LET idx == {i \in 1..Len(models) :
                    /\ "id" \in DOMAIN models[i]
                    /\ models[i]["id"] \notin {None, PyStr("")}}
        RECURSIVE Pick(_)
        Pick(i) == IF i > Len(models) THEN <<>>
                   ELSE (IF i \in idx THEN <<models[i]["id"]>> ELSE <<>>) \o Pick(i + 1)
    IN Pick(1)

\* cache and available models hold what the listed models say, nothing else
CacheIsFrom(models) ==
    /\ available_models = ListedIds(models)
    /\ IF models = <<>> THEN DOMAIN model_cache = {}
       ELSE /\ DOMAIN model_cache = {DATA_MODEL, DATA_PROVIDER, DATA_CONTEXT_WINDOW}
            /\ model_cache[DATA_MODEL] =
                   (IF "id" \in DOMAIN models[1] THEN models[1]["id"] ELSE PyStr("unknown"))
            /\ model_cache[DATA_PROVIDER] =
                   (IF "owned_by" \in DOMAIN models[1] THEN models[1]["owned_by"] ELSE None)
            /\ model_cache[DATA_CONTEXT_WINDOW] =
                   (IF "context_window" \in DOMAIN models[1]
                    THEN models[1]["context_window"] ELSE None)

\* C10 as stated: after async_get_models succeeded in a tick, cache and
\* available models are those of that response, whatever its model list.
C10_ReplacedByEveryResponse ==
    tick.models = "ok" => CacheIsFrom(ListedModels(tick.models_resp))

\* C10, amended: after async_get_models succeeded in a tick with a non-empty
\* model list, cache and available models are those of that response; with an
\* empty or missing list they are what they were when the tick started.
C10_ReplacedByNonEmptyResponse ==
    tick.models = "ok" =>
        IF ListedModels(tick.models_resp) /= <<>>
        THEN CacheIsFrom(ListedModels(tick.models_resp))
        ELSE model_cache = tick.cache_before /\ available_models = tick.avail_before

\* gpt-y, which names no owner, replaced gpt-x of acme
C10_Witness ==
    /\ tick.models = "ok"
    /\ ListedModels(tick.models_resp) /= <<>>
    /\ DictGet(tick.cache_before, DATA_PROVIDER) = PyStr("acme")
    /\ DictGet(model_cache, DATA_MODEL) = PyStr("gpt-y")
    /\ DictGet(model_cache, DATA_PROVIDER) = None

(* ---------------------------------------------------------------------- *)
(* Properties of the client (checked under SpecClient)                     *)
(* ---------------------------------------------------------------------- *)
\* the operations that send the bearer token
AuthenticatedOps ==
    {"async_get_models", "async_check_connection", "async_send_message",
     "async_stream_message", "async_invoke_tool"}

\* the primary calls
PrimaryOps == {"async_send_message", "async_stream_message", "async_invoke_tool"}

\* a request of one of ops got an HTTP response
Answered(ops) == call.op \in ops /\ call.sent /\ call.resp.net = "ok"

\* C5: on every operation that sends the token, a 401 or 403 response raises
\* OpenClawAuthError itself.
C5_AuthFailureOnEveryEndpoint ==
    (Answered(AuthenticatedOps) /\ call.resp.status \in {401, 403}) =>
        call.out.kind = "raise" /\ call.out.cls = OpenClawAuthError

\* a 403 on the chat call raised the generic OpenClawApiError
C5_Witness ==
    /\ Answered({"async_send_message"})
    /\ call.resp.status = 403
    /\ call.out.kind = "raise"
    /\ call.out.cls = OpenClawApiError
    /\ call.out.status = 403

IsPrefixOf(p, s) == Len(p) <= Len(s) /\ p = SubSeq(s, 1, Len(p))

\* C6: on a primary call, a response with status >= 400 other than 401 and
\* 403 raises OpenClawApiError itself, nothing being returned or yielded; the
\* error carries the status and the start of the body, the whole body when it
\* has at most 200 characters and never more than 300 characters.
C6_ApiErrorOnPrimaryCalls ==
    (Answered(PrimaryOps) /\ call.resp.status >= 400 /\ call.resp.status \notin {401, 403}) =>
        /\ call.out.kind = "raise"
        /\ call.out.cls = OpenClawApiError
        /\ call.out.status = call.resp.status
        /\ IsPrefixOf(call.out.excerpt, call.resp.text)
        /\ Len(call.out.excerpt) <= 300
        /\ Len(call.resp.text) <= 200 => call.out.excerpt = call.resp.text

\* a 500 with a body of 301 characters on the streaming call: the error
\* carries 200 of them
C6_Witness ==
    /\ Answered({"async_stream_message"})
    /\ call.resp.status = 500
    /\ Len(call.resp.text) = 301
    /\ call.out.kind = "raise"
    /\ call.out.cls = OpenClawApiError
    /\ call.out.status = 500
    /\ Len(call.out.excerpt) = 200

HasJson(ct) == Contains(ct, <<"j","s","o","n">>)

\* C7 as stated: async_check_connection raises an OpenClawApiError when the
\* content type does not contain "json" and returns True when it does,
\* whatever the status.
C7_JsonMeansReady ==
    Answered({"async_check_connection"}) =>
        IF HasJson(call.resp.content_type)
        THEN call.out = Return(TRUE)
        ELSE call.out.kind = "raise" /\ IsInstance(call.out.cls, OpenClawApiError)

\* C7, amended: async_check_connection raises OpenClawAuthError on status 401
\* or 403 whatever the content type; on every other status it raises the
\* generic OpenClawApiError, with the start of the body, when the content type
\* does not contain "json", and returns True when it does.
C7_JsonMeansReadyUnlessAuth ==
    Answered({"async_check_connection"}) =>
        IF call.resp.status \in {401, 403}
        THEN call.out.kind = "raise" /\ call.out.cls = OpenClawAuthError
        ELSE IF HasJson(call.resp.content_type)
             THEN call.out = Return(TRUE)
             ELSE /\ call.out.kind = "raise"
                  /\ call.out.cls = OpenClawApiError
                  /\ IsPrefixOf(call.out.excerpt, call.resp.text)

\* a 500 with a JSON content type proves the API ready
C7_Witness ==
    /\ Answered({"async_check_connection"})
    /\ call.resp.status = 500
    /\ call.resp.content_type = CtProblemJson
    /\ call.out = Return(TRUE)

(* ---------------------------------------------------------------------- *)
(* Properties of the coordinator, continued (checked under Spec)           *)
(* ---------------------------------------------------------------------- *)
\* a tick has returned in which async_get_models returned a non-empty list
ListedTick ==
    /\ tick.result = "returned"
    /\ tick.alive = "true"
    /\ tick.models = "ok"
    /\ ListedModels(tick.models_resp) /= <<>>

\* field key of model object m, None when it has none
FieldOf(m, key) == IF key \in DOMAIN m THEN m[key] ELSE None

ShowsInvocation(d, inv) ==
    /\ d[DATA_LAST_TOOL_NAME] = PyStr(inv.tool_name)
    /\ d[DATA_LAST_TOOL_STATUS] = PyStr(IF inv.ok THEN "ok" ELSE "error")
    /\ d[DATA_LAST_TOOL_DURATION_MS] = PyInt(inv.duration_ms)
    /\ d[DATA_LAST_TOOL_ERROR] = inv.error_message
    /\ d[DATA_LAST_TOOL_RESULT_PREVIEW] = inv.result_preview

\* C12: the step that records a tool invocation (the one that changes
\* _last_tool_state) publishes, in that same step, a snapshot whose last-tool
\* fields are the arguments of the call, and the poll tick does not move.
C12_ToolRecordedAtOnce ==
    [][last_tool_state' /= last_tool_state =>
          /\ pc' = pc
          /\ tick' = tick
          /\ last_pub' = "tool"
          /\ \E inv \in ToolInvocations :
                 /\ last_tool_state'[DATA_LAST_TOOL_NAME] = PyStr(inv.tool_name)
                 /\ ShowsInvocation(data', inv)]_vars

\* x, failed after 12 ms with "boom", is published while a tick awaits
\* async_get_models
C12_Witness ==
    /\ last_pub = "tool"
    /\ pc = "get_models"
    /\ data[DATA_LAST_TOOL_NAME] = PyStr("x")
    /\ data[DATA_LAST_TOOL_STATUS] = PyStr("error")
    /\ data[DATA_LAST_TOOL_DURATION_MS] = PyInt(12)
    /\ data[DATA_LAST_TOOL_ERROR] = PyStr("boom")
    /\ data[DATA_LAST_TOOL_RESULT_PREVIEW] = None

\* the probe of the tick raised OpenClawConnectionError
ProbeFailed == tick.alive = OpenClawConnectionError

\* the gateway calls of a tick, in order
CallOrder == <<"async_check_alive", "async_get_models", "async_invoke_tool">>

\* C18: the gateway calls of a tick are the probe, async_get_models and the
\* sessions_list invocation, in this order and each at most once; a tick whose
\* probe raises OpenClawConnectionError makes neither of the other two.
C18_CallsInOrder ==
    /\ \E n \in 0..Len(CallOrder) : tick.calls = SubSeq(CallOrder, 1, n)
    /\ ProbeFailed =>
           /\ tick.calls = <<"async_check_alive">>
           /\ tick.models = "none"
           /\ tick.sessions = "none"
           /\ tick.result = "returned"

\* a tick that returned after a failed probe, having called nothing else
C18_Witness ==
    /\ ProbeFailed
    /\ pc = "idle"
    /\ tick.result = "returned"
    /\ tick.calls = <<"async_check_alive">>

\* C19 as stated: of the failing ticks counted since the gateway was last
\* alive, the first three log at debug level, the fourth and every later one
\* logs a warning.
C19_WarningFromFourthOn ==
    ProbeFailed =>
        /\ fails_since_alive <= 3 => tick.unreachable_log = "debug"
        /\ fails_since_alive >= 4 => tick.unreachable_log = "warning"

\* C19, amended: the first three log at debug level, the fourth logs a
\* warning, the fifth and later ones log nothing.
C19_WarningOnFourthOnly ==
    ProbeFailed =>
        /\ fails_since_alive <= 3 => tick.unreachable_log = "debug"
        /\ fails_since_alive = 4 => tick.unreachable_log = "warning"
        /\ fails_since_alive >= 5 => tick.unreachable_log = "none"

\* the fifth failing tick in a row logged nothing
C19_Witness ==
    /\ ProbeFailed
    /\ fails_since_alive = 5
    /\ fail_run = 5
    /\ tick.unreachable_log = "none"

\* the token a config file holds, "" when it holds none: the file is missing,
\* is not JSON, lacks gateway.auth.token, or has an empty one
TokenIn(file) == IF file \in {"t0", "t1"} THEN file ELSE ""

\* C20: the refresh callback returns true exactly when the config file holds
\* a token and it differs from the entry's; it then stores the token in the
\* entry and in the client. Otherwise it returns false and leaves both as
\* they were; so it does for a missing file, a malformed one and one without
\* the token field.
C20_RefreshHook ==
    tick.hook.idx > 0 =>
        LET hook == tick.hook
            entry == entries[hook.idx]
        IN /\ hook.changed <=> (TokenIn(hook.file) /= "" /\ TokenIn(hook.file) /= hook.before.token)
           /\ hook.changed =>
                  /\ entry.token = TokenIn(hook.file)
                  /\ entry.client_token = TokenIn(hook.file)
           /\ ~hook.changed =>
                  /\ entry.token = hook.before.token
                  /\ entry.client_token = hook.before.client_token
           /\ hook.file \in {"missing", "malformed", "no_token"} => ~hook.changed

\* the file holds t1, the entry t0: true, and entry and client hold t1
C20_Witness ==
    /\ tick.hook.idx > 0
    /\ tick.hook.file = "t1"
    /\ tick.hook.before.token = "t0"
    /\ tick.hook.changed
    /\ entries[tick.hook.idx].token = "t1"
    /\ entries[tick.hook.idx].client_token = "t1"

(* ---------------------------------------------------------------------- *)
(* Properties of the chat history (checked under SpecHistory)              *)
(* ---------------------------------------------------------------------- *)
\* the log of session s, empty when nothing was appended to it
LogOf(s) == IF s \in DOMAIN chat_history THEN chat_history[s] ELSE <<>>

\* the number of entries a log holds after n appends
Kept(n) == IF n < 200 THEN n ELSE 200

\* C13: every session's log holds at most 200 entries, and they are the last
\* min(n, 200) of the n messages appended to that session, in append order.
C13_ChatHistoryBound ==
    \A s \in Sessions :
        LET log == LogOf(s)
            n == appended[s]
        IN /\ Len(log) <= 200
           /\ Len(log) = Kept(n)
           /\ \A i \in 1..Len(log) :
                  /\ log[i].content = ContentOf(n - Len(log) + i)
                  /\ log[i].role = RoleOf(n - Len(log) + i)

\* the 201st message was appended: 200 entries, the first one dropped, while
\* the other session keeps its own two
C13_Witness ==
    /\ appended["main"] = 201
    /\ appended["other"] = 2
    /\ Len(LogOf("main")) = 200
    /\ LogOf("main")[1].content = ContentOf(2)
    /\ LogOf("main")[200].content = ContentOf(201)
    /\ Len(LogOf("other")) = 2

(* ---------------------------------------------------------------------- *)
(* Properties of the client, continued (checked under SpecClient)          *)
(* ---------------------------------------------------------------------- *)
\* a streamed completion was answered with a body of SSE lines
Streamed == Answered({"async_stream_message"}) /\ call.resp.status < 400

\* the lines before the first "data: [DONE]"
BeforeDone(lines) ==
    LET done == {i \in 1..Len(lines) : lines[i].marker /\ lines[i].payload = SseDone}
    IN IF done = {} THEN lines
       ELSE SubSeq(lines, 1, (CHOOSE i \in done : \A j \in done : i <= j) - 1)

\* line is a data frame whose choices[0].delta.content is a non-empty string
HasDelta(line) ==
    /\ line.marker
    /\ line.payload.t = "dict"
    /\ "choices" \in DOMAIN line.payload.v
    /\ line.payload.v["choices"].t = "list"
    /\ line.payload.v["choices"].v /= <<>>
    /\ line.payload.v["choices"].v[1].t = "dict"
    /\ "delta" \in DOMAIN line.payload.v["choices"].v[1].v
    /\ line.payload.v["choices"].v[1].v["delta"].t = "dict"
    /\ "content" \in DOMAIN line.payload.v["choices"].v[1].v["delta"].v
    /\ line.payload.v["choices"].v[1].v["delta"].v["content"].t = "str"
    /\ line.payload.v["choices"].v[1].v["delta"].v["content"].v /= ""

RECURSIVE Deltas(_)
\* the non-empty choices[0].delta.content values of lines, in order
Deltas(lines) ==
    IF lines = <<>> THEN <<>>
    ELSE (IF HasDelta(Head(lines))
          THEN <<Head(lines).payload.v["choices"].v[1].v["delta"].v["content"]>>
          ELSE <<>>) \o Deltas(Tail(lines))

\* C14: for every SSE body, async_stream_message yields, in order, the
\* non-empty choices[0].delta.content of the data frames before the first
\* "data: [DONE]", each a non-empty string, and then ends normally.
C14_YieldsDeltasUntilDone ==
    Streamed =>
        /\ call.out.kind = "stream"
        /\ call.out.yielded = Deltas(BeforeDone(call.resp.lines))
        /\ \A i \in 1..Len(call.out.yielded) :
               call.out.yielded[i].t = "str" /\ call.out.yielded[i].v /= ""
        /\ call.out.cls = ""

\* A, a frame "data: null", B: only A is yielded, then AttributeError
C14_Witness ==
    /\ Streamed
    /\ call.resp.lines = <<DeltaFrame(PyStr("A")), SseLine(TRUE, None), DeltaFrame(PyStr("B"))>>
    /\ call.out.yielded = <<PyStr("A")>>
    /\ call.out.cls = "AttributeError"

\* C15: no line of the body makes the stream raise: lines without the data
\* marker and frames that do not parse are skipped, the delta of every frame
\* before the first "data: [DONE]" is yielded, and nothing after it is.
C15_NoFrameAbortsTheStream ==
    Streamed =>
        /\ call.out.kind = "stream"
        /\ call.out.cls = ""
        /\ Len(call.out.yielded) = Len(Deltas(BeforeDone(call.resp.lines)))

\* a frame whose delta is null ends the stream with AttributeError before B
C15_Witness ==
    /\ Streamed
    /\ Len(call.resp.lines) = 4
    /\ call.resp.lines[2] =
           SseLine(TRUE, PyDict([choices |-> PyList(<<PyDict([delta |-> None])>>)]))
    /\ call.out.cls = "AttributeError"
    /\ Len(call.out.yielded) = 1

(* ---------------------------------------------------------------------- *)
(* Properties of the extractor (checked under SpecExtract)                 *)
(* ---------------------------------------------------------------------- *)
\* the priority order the claim states
ClaimedOrder ==
    <<"output_text", "text", "content", "message", "response", "answer", "choices",
      "output", "delta">>

\* a value one level below the root yields text
Yields(v) == _extract_text_recursive(v, 1) /= None

Least(S) == CHOOSE i \in S : \A j \in S : i <= j

Reverse(s) == [i \in 1..Len(s) |-> s[Len(s) + 1 - i]]

\* C16: for a dict, the extractor returns the text of the first key, in the
\* order output_text, text, content, message, response, answer, choices,
\* output, delta, whose value yields text, whatever other keys the dict has
\* and in whatever order they were inserted; only when no such key yields
\* text does it return the text of the first other value that yields one.
C16_PriorityKeysFirst ==
    (extracted.called /\ extracted.value.t = "dict") =>
        LET items == extracted.value.items
            yielding == {i \in 1..Len(ClaimedOrder) :
                             /\ HasKey(items, ClaimedOrder[i])
                             /\ Yields(ItemGet(items, ClaimedOrder[i]))}
            others == {i \in 1..Len(items) : Yields(items[i].v)}
        IN IF yielding /= {}
           THEN /\ extracted.result =
                       _extract_text_recursive(ItemGet(items, ClaimedOrder[Least(yielding)]), 1)
                /\ _extract_text_recursive(PyItems(Reverse(items)), 0) = extracted.result
           ELSE IF others /= {}
                THEN extracted.result = _extract_text_recursive(items[Least(others)].v, 1)
                ELSE extracted.result = None

\* {"note": "hello", "text": " hi\n"}: the text key wins over the note
\* inserted before it
C16_Witness ==
    /\ extracted.called
    /\ extracted.value = PyItems(<<Item("note", PyStr(Hello)), Item("text", PyStr(Padded))>>)
    /\ extracted.result = PyStr(<<"h", "i">>)

RECURSIVE HasText(_, _)
\* value, at nesting depth depth, holds a string that is not blank within
\* the depth the recursion reaches
HasText(value, depth) ==
    /\ depth <= 8
    /\ CASE value.t = "str" -> \E i \in 1..Len(value.v) : value.v[i] \notin {" ", "\t", "\n"}
         [] value.t = "list" -> \E i \in 1..Len(value.v) : HasText(value.v[i], depth + 1)
         [] value.t = "dict" ->
                \E i \in 1..Len(value.items) : HasText(value.items[i].v, depth + 1)
         [] OTHER -> FALSE

\* C17: the extractor returns None exactly when the response holds no string
\* with a non-blank character within reach, and otherwise a non-empty string
\* that neither starts nor ends with whitespace; {"text": "hello"} and
\* {"content": {"text": "hello"}} both give "hello".
C17_NeverBlank ==
    extracted.called =>
        LET r == extracted.result
        IN /\ r = None <=> ~HasText(extracted.value, 0)
           /\ r /= None =>
                  /\ r.t = "str"
                  /\ r.v /= <<>>
                  /\ r.v[1] \notin {" ", "\t", "\n"}
                  /\ r.v[Len(r.v)] \notin {" ", "\t", "\n"}
           /\ extracted.value \in
                  {PyItems(<<Item("text", PyStr(Hello))>>),
                   PyItems(<<Item("content", PyItems(<<Item("text", PyStr(Hello))>>))>>)}
                  => r = PyStr(Hello)

\* {"content": {"text": "hello"}} gives "hello"
C17_Witness ==
    /\ extracted.called
    /\ extracted.value = PyItems(<<Item("content", PyItems(<<Item("text", PyStr(Hello))>>))>>)
    /\ extracted.result = PyStr(Hello)

\* async_send_message was called with stream = True
StreamRequested == call.op = "async_send_message" /\ call.stream

\* C23 as claimed: async_send_message with stream = True fails with an error of
\* the typed taxonomy, one that a handler for OpenClawApiError catches, and
\* sends no request
C23_StreamFlagRaisesApiError ==
    StreamRequested
        => /\ call.out.kind = "raise"
           /\ IsInstance(call.out.cls, OpenClawApiError)
           /\ ~call.sent

\* C23: async_send_message with stream = True raises ValueError, which no
\* handler for OpenClawApiError catches, and sends no request: it builds no
\* headers and obtains no session
C23_StreamFlagRaisesValueError ==
    StreamRequested
        => /\ call.out.kind = "raise"
           /\ call.out.cls = "ValueError"
           /\ ~IsInstance(call.out.cls, OpenClawApiError)
           /\ ~call.sent /\ call.headers = None /\ call.session = None

\* streaming was requested of async_send_message while the gateway would have
\* answered 200
C23_Witness ==
    /\ StreamRequested
    /\ call.resp.net = "ok" /\ call.resp.status = 200
    /\ call.out.kind = "raise"

(* ---------------------------------------------------------------------- *)
(* Properties of the client's token and session (checked under SpecSession) *)
(* ---------------------------------------------------------------------- *)
\* the operation, the response, the headers or the session of call d are not
\* those of call c
Differ(c, d) ==
    \/ c.op # d.op
    \/ /\ c.op # "none"
       /\ \/ c.sent # d.sent
          \/ c.resp # d.resp
          \/ c.headers # d.headers
          \/ c.session # d.session

\* this step issues a request of one of ops
Issues(ops) == Differ(call, call') /\ call'.op \in ops /\ call'.sent

\* every operation that sends a request
RequestOps == AuthenticatedOps \cup {"async_check_alive"}

\* C21: update_token(t) leaves the HTTP session as it is, and every
\* authenticated request issued after it carries the bearer token t of the
\* last update, never an earlier token
C21_TokenSwap ==
    [][/\ (updated_to' # updated_to /\ updated_to'.called)
           => _session' = _session /\ opened' = opened
       /\ (Issues(AuthenticatedOps) /\ updated_to.called)
           => call'.headers.Authorization = <<"Bearer", updated_to.token>>]_vars

\* a tool was invoked with the token of an update, on the session the client
\* was constructed with
C21_Witness ==
    /\ call.op = "async_invoke_tool" /\ call.sent
    /\ updated_to.called /\ updated_to.token = "t2"
    /\ call.headers.Authorization = <<"Bearer", "t2">>
    /\ call.session = Session(0, FALSE)

\* C26: the session is created lazily and reused: every request is issued on
\* an open session, a session is created only when the client has none or
\* its session is closed, and a request that follows another with no close in
\* between is issued on the same session
C26_SessionReuse ==
    [][/\ Issues(RequestOps)
           => /\ call'.session # None /\ ~call'.session.closed
              /\ call'.session = _session'
       /\ opened' # opened => (_session = None \/ _session.closed)
       /\ (Issues(RequestOps) /\ call.op # "none" /\ call.sent /\ _session = call.session)
           => call'.session = call.session /\ opened' = opened]_vars

\* a request went out on the second session the client created itself, the
\* earlier ones having been closed
C26_Witness ==
    /\ call.op \in RequestOps /\ call.sent
    /\ call.session = Session(2, FALSE)
    /\ _session = call.session
    /\ opened = 2

(* ---------------------------------------------------------------------- *)
(* Properties of the liveness probe (checked under SpecProbe)              *)
(* ---------------------------------------------------------------------- *)
\* connect, DNS, timeout and TLS failures, as aiohttp raises them
ConnectFailures ==
    {ClientConnectorError, ClientOSError, ClientConnectorDNSError, TimeoutError,
     ClientConnectorCertificateError}

\* data is the snapshot that the tick of the bookkeeping returned
ReturnedByTick == tick.result = "returned" /\ PublishedByTick

\* C25: async_check_alive returns True on every response whose status is
\* below 500, 401, 403 and 404 included, and raises OpenClawConnectionError on
\* a connect, DNS, timeout or TLS failure; the snapshot a tick returns is
\* online only if the probe of that tick returned True
C25_ProbeLaw ==
    /\ tick.probe # None
        => /\ (tick.probe.net = "ok" /\ tick.probe.status < 500) => tick.alive = "true"
           /\ tick.probe.net \in ConnectFailures => tick.alive = OpenClawConnectionError
    /\ (ReturnedByTick /\ Online(data)) => tick.alive = "true"

\* a tick whose probe was answered 403 returned an online snapshot
C25_Witness ==
    /\ ReturnedByTick
    /\ tick.probe # None /\ tick.probe.net = "ok" /\ tick.probe.status = 403
    /\ Online(data)

(* ---------------------------------------------------------------------- *)
(* Properties of the coordinator, continued (checked under Spec)           *)
(* ---------------------------------------------------------------------- *)
\* the last-tool fields of snapshot d are those of the last recorded invocation
CarriesLastTool(d) == \A k \in DOMAIN last_tool_state : d[k] = last_tool_state[k]

\* C27: the snapshot a tick publishes carries the last-tool fields of the
\* latest recorded invocation, also one recorded while the tick was suspended
\* at a network call, on the online, the not-alive and the offline path
C27_NoLostToolRecord == PublishedByTick => CarriesLastTool(data)

\* an invocation of x was recorded while a tick awaited the probe; the probe
\* failed and the tick published a snapshot without it
C27_Witness ==
    /\ PublishedByTick /\ tick.result = "returned"
    /\ ProbeFailed
    /\ last_tool_state[DATA_LAST_TOOL_NAME] = PyStr("x")
    /\ data[DATA_LAST_TOOL_NAME] = None

\* the tick of the bookkeeping tried to refresh the token
Refreshing == tick.try_refresh > 0 \/ tick.hook_calls > 0

ProbeCompletes == pc = "check_alive" /\ pc' # "check_alive"

\* C29: the consecutive-failure counter is the number of ticks whose probe
\* raised OpenClawConnectionError since the last tick whose probe reported
\* the gateway alive: such a tick adds exactly one, a tick whose probe reports
\* alive resets it to 0, a tick whose probe reports not alive (status >= 500)
\* leaves it as it is and publishes an offline snapshot, and nothing else
\* changes it
C29_FailureCounter ==
    /\ [](consecutive_failures = fails_since_alive)
    /\ [][/\ (ProbeCompletes /\ tick'.alive = OpenClawConnectionError)
               => consecutive_failures' = consecutive_failures + 1
          /\ (ProbeCompletes /\ tick'.alive = "true") => consecutive_failures' = 0
          /\ (ProbeCompletes /\ tick'.alive = "false")
               => /\ consecutive_failures' = consecutive_failures
                  /\ tick'.probe.net = "ok" /\ tick'.probe.status >= 500
                  /\ Offline(data')
          /\ ~ProbeCompletes => consecutive_failures' = consecutive_failures]_vars

\* after two failed probes, a tick whose probe was answered 500 published an
\* offline snapshot and left the counter at 2
C29_Witness ==
    /\ tick.result = "returned" /\ tick.alive = "false"
    /\ PublishedByTick /\ Offline(data)
    /\ consecutive_failures = 2

\* C30: in every published snapshot the status is "online" and connected is
\* true, or the status is "offline" and connected is false; the session count
\* is the length of the session list; an offline snapshot has no sessions;
\* and the snapshot of a tick whose session enumeration did not succeed has
\* none either, whatever the snapshot before it held
C30_SnapshotConsistent ==
    /\ data # None
        => /\ Online(data) \/ Offline(data)
           /\ data[DATA_SESSION_COUNT] = Len(data[DATA_SESSIONS])
           /\ Offline(data) => data[DATA_SESSION_COUNT] = 0 /\ data[DATA_SESSIONS] = <<>>
    /\ (ReturnedByTick /\ tick.sessions # "ok") => data[DATA_SESSIONS] = <<>>

\* an online snapshot with two sessions
C30_Witness ==
    /\ ReturnedByTick /\ Online(data)
    /\ tick.sessions = "ok"
    /\ Len(data[DATA_SESSIONS]) = 2 /\ data[DATA_SESSION_COUNT] = 2

\* this step is a call of record_tool_invocation: a snapshot is published or
\* the last-tool record changes while the tick stays where it is
RecordsTool == pc' = pc /\ tick' = tick /\ (data' # data \/ last_tool_state' # last_tool_state)

\* C31: record_tool_invocation changes only the last-tool fields of the
\* published snapshot: every other field of the snapshot it publishes is that
\* of the snapshot published before it, and the model cache, the available
\* models and the consecutive-failure counter stay as they are
C31_ToolRecordFrame ==
    [][RecordsTool
         => /\ data # None
                => \A k \in SnapshotKeys \ DOMAIN last_tool_state : data'[k] = data[k]
            /\ UNCHANGED <<model_cache, available_models, consecutive_failures>>]_vars

\* y was recorded over an online snapshot with two sessions and a model
C31_Witness ==
    /\ last_pub = "tool"
    /\ Online(data)
    /\ Len(data[DATA_SESSIONS]) = 2 /\ data[DATA_SESSION_COUNT] = 2
    /\ data[DATA_MODEL] = PyStr("gpt-x")
    /\ data[DATA_LAST_TOOL_NAME] = PyStr("y")

\* C32: in the snapshot a tick returns, whenever the available models are
\* not empty the snapshot's model is the first of them
C32_ModelIsFirstAvailable ==
    (ReturnedByTick /\ available_models # <<>>)
        => data[DATA_MODEL] = available_models[1]

\* [{owned_by: beta}, {id: gpt-y}] listed: the snapshot shows "unknown" while
\* the available models are [gpt-y]
C32_Witness ==
    /\ ListedTick /\ PublishedByTick
    /\ ListedModels(tick.models_resp) = <<ModelAnon, ModelY>>
    /\ data[DATA_MODEL] = PyStr("unknown")
    /\ available_models = <<PyStr("gpt-y")>>

(* ---------------------------------------------------------------------- *)
(* Properties of the callers (checked under SpecCallers)                   *)
(* ---------------------------------------------------------------------- *)
\* the request has ended, and the first answer of the gateway to it was an
\* authentication failure
StaleCredential == req.pc = "done" /\ req.first = OpenClawAuthError

\* C22 as claimed, for the entries that have a refresh callback: a turn of the
\* agent or a send_message call whose gateway call fails with an
\* authentication failure awaits the refresh callback exactly once, asks the
\* gateway a second time exactly when the callback changed the token and
\* never a third time, and ends in an error message when the error remains,
\* never in an exception
C22_RefreshAndRetryOnce ==
    (StaleCredential /\ req.hook)
        => /\ req.refreshes = 1
           /\ req.tries = IF req.refreshed THEN 2 ELSE 1
           /\ req.result # "raised"
           /\ req.last # "" => req.result = "error_message"

\* a send_message call answered 401 ended in an error message without having
\* awaited the refresh callback of its entry
C22_Witness ==
    /\ StaleCredential /\ req.who = "service" /\ req.hook
    /\ req.refreshes = 0 /\ req.tries = 1
    /\ req.result = "error_message"

\* _get_response has just completed, for the first or the second time in a turn
GotResponse == req.who = "agent" /\ req.pc = "get_response" /\ req' # req

\* the client operations that the completed _get_response called
CalledNow == SubSeq(req'.ops, Len(req.ops) + 1, Len(req'.ops))

\* the stream ran to its end, yielding the deltas s.yielded
Completed(s) == s.kind = "stream" /\ s.cls = ""

\* C33: each _get_response of a turn calls async_stream_message first; when the
\* stream completes having yielded at least one delta, async_send_message is
\* not called and the reply is the deltas concatenated in order; when it
\* completes having yielded nothing, async_send_message is called exactly once
\* and the reply is the text extracted from its response (empty when there is
\* none); a stream that raises is never followed by async_send_message
C33_StreamFirst ==
    [][GotResponse =>
        LET s == req'.stream
        IN /\ Head(CalledNow) = "async_stream_message"
           /\ (Completed(s) /\ s.yielded # <<>>)
                => /\ CalledNow = <<"async_stream_message">>
                   /\ req'.result = "reply"
                   /\ req'.message = full_response(s.yielded)
           /\ (Completed(s) /\ s.yielded = <<>>)
                => /\ CalledNow = <<"async_stream_message", "async_send_message">>
                   /\ req'.result = "reply"
                        => LET text == agent_extract_text_recursive(
                                           async_send_message(req'.sent, FALSE).value, 0)
                           IN req'.message = IF Truthy(text) THEN text ELSE PyStr(<<>>)
           /\ ~Completed(s) => CalledNow = <<"async_stream_message">>]_vars

\* a turn answered "AB" from the deltas A and B without a completion request
C33_Witness ==
    /\ req.who = "agent" /\ req.pc = "done" /\ req.result = "reply"
    /\ req.stream.kind = "stream" /\ req.stream.yielded = <<PyStr("A"), PyStr("B")>>
    /\ req.ops = <<"async_stream_message">>
    /\ req.message = PyStr("AB")

\* the log of the session that the service calls of the model use
Log == IF "main" \in DOMAIN chat_history THEN chat_history["main"] ELSE <<>>

\* a send_message service call starts, goes on to the follow-up request, ends
ServiceStarts == req'.who = "service" /\ req'.pc = "send" /\ req'.n = req.n + 1
ServiceGoesOn == req.who = "service" /\ req.pc = "send" /\ req'.pc = "send_tools"
ServiceEnds == req.who = "service" /\ req.pc \in {"send", "send_tools"} /\ req'.pc = "done"

\* the last entry of log has the role and the content
EndsWith(log, role, content) ==
    log # <<>> /\ log[Len(log)].role = role /\ log[Len(log)].content = content

ToolCallsEnabled ==
    DictGetDefault(req.options, CONF_ENABLE_TOOL_CALLS, DEFAULT_ENABLE_TOOL_CALLS)

\* the domains and services called, in order
Called(calls) == [i \in 1..Len(calls) |-> <<calls[i].domain, calls[i].service>>]

\* C36: a send_message service call with tool calls off (the default) calls no
\* Home Assistant service and has sent exactly one completion request when it
\* ends; with tool calls on, every service is called for a tool call named
\* execute_service or execute_services, the services called are those called
\* when none fails, at most one follow-up request is sent and the tool calls
\* of its response are not executed
C36_ToolCalls ==
    /\ [](req.who = "service"
            => /\ ~ToolCallsEnabled
                    => /\ req.services = <<>>
                       /\ req.followups = 0
                       /\ req.pc = "done" => req.ops = <<"async_send_message">>
               /\ \A i \in 1..Len(req.services) : req.services[i].tool \in SupportedTools
               /\ req.tool_resp # None
                    => Called(req.services)
                         = Called(_async_execute_tool_calls(
                                      async_send_message(req.tool_resp, FALSE).value, {}).calls)
               /\ req.followups <= 1
               /\ Len(req.ops) <= 2)
    /\ [][(req.who = "service" /\ req.pc = "send_tools") => req'.services = req.services]_vars

\* tool calls on: light.turn_on failed, lock.open was still called, once, for
\* execute_services and not for get_weather, and the follow-up was answered
\* with other tool calls
C36_Witness ==
    /\ req.who = "service" /\ req.pc = "done" /\ ToolCallsEnabled
    /\ Len(req.services) = 2
    /\ req.services[1] = ServiceCall(PyStr("execute_services"), PyStr("light"), PyStr("turn_on"), FALSE)
    /\ req.services[2] = ServiceCall(PyStr("execute_services"), PyStr("lock"), PyStr("open"), TRUE)
    /\ req.followups = 1
    /\ req.sent \in ToolReplies /\ req.sent # req.tool_resp

\* an invoke_tool service call ends
InvokeToolEnds == req.who = "invoke_tool" /\ req.pc = "invoke" /\ req'.pc = "done"

\* C35: an invoke_tool service call, whether async_invoke_tool returned or
\* raised an OpenClawApiError, calls record_tool_invocation once, which
\* publishes the invocation, then fires one tool-invoked event, and only then
\* fails, with OpenClawApiError, exactly when the recorded ok is false
C35_RecordThenFireThenFail ==
    [][InvokeToolEnds
        => /\ Len(req'.recorded) = 1
           /\ req'.events = 1
           /\ req'.recorded[1].tool_name = req.tool_name
           /\ last_tool_state' = ToolState(req'.recorded[1], last_tool_state'[DATA_LAST_TOOL_INVOKED_AT].v)
           /\ \A k \in DOMAIN last_tool_state' : data'[k] = last_tool_state'[k]
           /\ SubSeq(req'.ops, 1, 3)
                = <<"async_invoke_tool", "record_tool_invocation", "async_fire">>
           /\ req'.result = "raised" <=> ~req'.recorded[1].ok
           /\ req'.result = "raised"
                => req'.last = OpenClawApiError /\ req'.ops[Len(req'.ops)] = "raise"
                    /\ Len(req'.ops) = 4
           /\ req'.result # "raised" => req'.result = "returned" /\ Len(req'.ops) = 3]_vars

\* the gateway answered 500: the failure of tool x was recorded and published,
\* the event fired and the call failed with OpenClawApiError
C35_Witness ==
    /\ req.who = "invoke_tool" /\ req.pc = "done" /\ req.tool_name = "x"
    /\ req.result = "raised" /\ req.last = OpenClawApiError
    /\ Len(req.recorded) = 1 /\ ~req.recorded[1].ok
    /\ req.recorded[1].error_message = PyStr("Tool invoke error")
    /\ req.events = 1
    /\ data # None /\ data[DATA_LAST_TOOL_NAME] = PyStr("x")
    /\ data[DATA_LAST_TOOL_STATUS] = PyStr("error")

RECURSIVE TextAt(_, _)
\* value holds a string that is not blank exactly d levels below it
TextAt(value, d) ==
    CASE value.t = "str" -> d = 0 /\ \E i \in 1..Len(value.v) : value.v[i] \notin Whitespace
      [] value.t = "list" -> d > 0 /\ \E i \in 1..Len(value.v) : TextAt(value.v[i], d - 1)
      [] value.t = "dict" ->
             d > 0 /\ \E i \in 1..Len(value.items) : TextAt(value.items[i].v, d - 1)
      [] OTHER -> FALSE

\* C37: the extractor returns None for a response whose only text lies more
\* than 8 levels below the root; text nested k levels deep is returned for
\* k <= 8 and not for k > 8
C37_DepthBound ==
    extracted.called =>
        /\ (\A d \in 0..8 : ~TextAt(extracted.value, d)) => extracted.result = None
        /\ \A k \in 1..MaxDepth :
               extracted.value = Nest(k, PyStr(Deep))
                   => extracted.result = IF k <= 8 THEN PyStr(Deep) ELSE None

\* text 9 levels deep gives None
C37_Witness ==
    /\ extracted.called
    /\ extracted.value = Nest(9, PyStr(Deep))
    /\ TextAt(extracted.value, 9)
    /\ extracted.result = None

\* C38: the extractor of __init__.py and the extractor of the conversation
\* agent return the same result on the same response
C38_SameExtraction ==
    extracted.called => extracted.agent = extracted.result

\* {"note": "hello", "content": " hi\n"} gives "hi" on both paths
C38_Witness ==
    /\ extracted.called
    /\ extracted.value = PyItems(<<Item("note", PyStr(Hello)), Item("content", PyStr(Padded))>>)
    /\ extracted.result = PyStr(<<"h", "i">>)
    /\ extracted.agent = PyStr(<<"h", "i">>)

\* the error that the form shows for the exception class cls
ErrorFor(cls) ==
    IF cls = OpenClawAuthError THEN "invalid_auth"
    ELSE IF cls = OpenClawConnectionError THEN "cannot_connect"
    ELSE "openai_api_disabled"

\* C39: an entry exists only for a connection on which async_check_connection
\* returned True, and holds the discovered or submitted connection; after a
\* validation that raised OpenClawAuthError, OpenClawConnectionError or
\* another OpenClawApiError the form of the step is shown again with the one
\* error invalid_auth, cannot_connect or openai_api_disabled, and the step
\* creates no entry
C39_EntryOnlyAfterProbe ==
    /\ [](/\ flow.entry # None
              => /\ _async_validate_connection(flow.entry.probed) = Return(TRUE)
                 /\ flow.entry.data \in UserInputs \cup {Discovered}
          /\ flow.result = "create_entry"
              => flow.entry = [data |-> flow.created, probed |-> flow.probed]
          /\ (flow.result = "form" /\ flow.probed # None)
              => LET out == _async_validate_connection(flow.probed)
                 IN /\ out.kind = "raise"
                    /\ IsInstance(out.cls, OpenClawApiError)
                    /\ flow.errors = ("base" :> ErrorFor(out.cls))
                    /\ Cardinality(DOMAIN flow.errors) = 1
                    /\ flow.entry = None /\ flow.created = None)
    /\ [][flow'.result = "form" => flow'.entry = flow.entry]_vars

\* the manual form shown again with openai_api_disabled after the gateway
\* answered 200 with an HTML page; no entry
C39_Witness ==
    /\ flow.result = "form" /\ flow.step_id = "manual"
    /\ flow.probed = HttpResponse(200, CtHtml, Text(3), None)
    /\ flow.errors = ("base" :> "openai_api_disabled")
    /\ flow.entry = None

\* C40: apply_context_policy never returns a text longer than max_chars: None
\* for no or an empty context and for max_chars <= 0, the context itself when
\* it fits, None when it does not fit and the strategy is "clear", and
\* otherwise a text of exactly max_chars characters: the last max_chars
\* characters of the context when the marker leaves no room, else the marker
\* followed by the last max_chars - len(marker) characters of the context
C40_NeverLonger ==
    applied.called =>
        LET c == applied.context_text
            m == applied.max_chars
            r == applied.result
            empty == c = None \/ c.v = <<>>
            fits == ~empty /\ m > 0 /\ Len(c.v) <= m
            long == ~empty /\ m > 0 /\ Len(c.v) > m
            k == IF m > Len(marker) THEN m - Len(marker) ELSE m
        IN /\ r # None => Len(r.v) <= m
           /\ (empty \/ m <= 0) => r = None
           /\ fits => r = c
           /\ (long /\ applied.strategy = "clear") => r = None
           /\ (long /\ applied.strategy # "clear")
                => /\ r # None
                   /\ Len(r.v) = m
                   /\ SubSeq(r.v, m - k + 1, m) = SubSeq(c.v, Len(c.v) - k + 1, Len(c.v))
                   /\ m > Len(marker) => SubSeq(r.v, 1, Len(marker)) = marker

\* 60 characters cut to 55: the marker and the last 5 characters
C40_Witness ==
    /\ applied.called
    /\ applied.context_text = Context(60) /\ applied.max_chars = 55
    /\ applied.strategy = "truncate"
    /\ applied.result # None
    /\ Len(applied.result.v) = 55
    /\ SubSeq(applied.result.v, 1, 50) = marker
    /\ SubSeq(applied.result.v, 51, 55) = SubSeq(Context(60).v, 56, 60)

====
